---- MODULE Spec2Model ----
(***************************************************************************)
(* Model of the taste-matching and recommendation core of the movie        *)
(* platform: the constrained LLM recommender (llm_lab/recommender.py), the  *)
(* candidate retrieval (llm_lab/movie_retriever.py,                         *)
(* llm_lab/movie_db_connector.py), the index snapshot cache                 *)
(* (ml/model_sample/analysis/group_recommendation.py) and the satisfaction  *)
(* scorer (domain/a3_prediction.py).                                        *)
(*                                                                          *)
(* Scores are fixed-point numbers.  Emotion scores of the catalog are       *)
(* integers 0..2 (0, 0.5, 1.0); cosine similarities used for ranking are    *)
(* kept as exact squared rationals <<num, den>>.                            *)
(***************************************************************************)
EXTENDS Integers, Sequences, FiniteSets, TLC

VARIABLES
    movies,      \* rows of movie_vectors joined with movies, in table order
    dbconn,      \* MovieRetriever.db_connector: "ok", "none" or "raises"
    pc,          \* per request: position inside LLMRecommender.recommend
    req,         \* per request: the arguments of recommend
    candidates,  \* per request: local variable candidates
    result,      \* per request: what llm_client.generate returned
    resp,        \* per request: what recommend returned or raised
    genCalls,    \* per request: number of llm_client.generate invocations
    prompt,      \* per request: the candidate listing given to the generator
    sIn,         \* arguments of one candidate search
    sOut,        \* its results (connector search and retriever)
    idxIn,       \* arguments of load_or_build_db (the same on every call)
    cacheFile,   \* contents of the file at db_cache_path, or NoFile
    dbs,         \* what each call of load_or_build_db returned, in call order
    scIn,        \* arguments of calculate_satisfaction_probability
    scOut,       \* its result
    agIn,        \* arguments of aggregate_group_score
    agOut,       \* its result
    sgIn,        \* payload of simulate_group
    sgOut,       \* its result
    exIn,        \* arguments of generate_explanation and the generator's behaviour
    exOut,       \* its result
    txIn,        \* the taxonomy file as load_taxonomy finds it
    txOut,       \* what load_taxonomy returned and what a consumer read from it
    store,       \* user_preferences and movie_vectors tables
    upIn,        \* arguments of update_from_review
    upOut,       \* its result
    conversation_history,  \* ConversationalRecommender.conversation_history
    chatOut,     \* what the last chat or reset call returned or raised
    chatCalls,   \* number of chat and reset calls made
    apIn,        \* payload of analyze_preference
    apOut        \* its result

recVars == <<movies, dbconn, pc, req, candidates, result, resp, genCalls, prompt>>
srchVars == <<sIn, sOut>>
idxVars == <<idxIn, cacheFile, dbs>>
scVars == <<scIn, scOut>>
grpVars == <<agIn, agOut, sgIn, sgOut>>
exVars == <<exIn, exOut>>
txVars == <<txIn, txOut>>
upVars == <<store, upIn, upOut>>
chatVars == <<conversation_history, chatOut, chatCalls>>
apVars == <<apIn, apOut>>
vars == <<movies, dbconn, pc, req, candidates, result, resp, genCalls, prompt, sIn, sOut,
          idxIn, cacheFile, dbs, scIn, scOut, agIn, agOut, sgIn, sgOut,
          exIn, exOut, txIn, txOut, store, upIn, upOut,
          conversation_history, chatOut, chatCalls, apIn, apOut>>

\* what the operations of one component leave alone
notRec == <<srchVars, idxVars, scVars, grpVars, exVars, txVars, upVars, chatVars, apVars>>
notSearch == <<recVars, idxVars, scVars, grpVars, exVars, txVars, upVars, chatVars, apVars>>
notIndex == <<recVars, srchVars, scVars, grpVars, exVars, txVars, upVars, chatVars, apVars>>
notScore == <<recVars, srchVars, idxVars, grpVars, exVars, txVars, upVars, chatVars, apVars>>
notGroup == <<recVars, srchVars, idxVars, scVars, exVars, txVars, upVars, chatVars, apVars>>
notExplain == <<recVars, srchVars, idxVars, scVars, grpVars, txVars, upVars, chatVars, apVars>>
notTaxonomy == <<recVars, srchVars, idxVars, scVars, grpVars, exVars, upVars, chatVars, apVars>>
notUpdater == <<recVars, srchVars, idxVars, scVars, grpVars, exVars, txVars, chatVars, apVars>>
notChat == <<recVars, srchVars, idxVars, scVars, grpVars, exVars, txVars, upVars, apVars>>
notPreference == <<recVars, srchVars, idxVars, scVars, grpVars, exVars, txVars, upVars, chatVars>>

----------------------------------------------------------------------------
(* Generic helpers *)

Range(s) == {s[i] : i \in DOMAIN s}

Min(a, b) == IF a <= b THEN a ELSE b

\* s[:k] for k >= 0
Take(s, k) == SubSeq(s, 1, Min(k, Len(s)))

None == [none |-> TRUE]

----------------------------------------------------------------------------
(* Catalog *)

\* order of the emotion tags in a vector (16 tags in the code, 2 kept here)
EmotionTags == <<"sad", "calm">>

Row(id, gs, y, es) == [id |-> id, genres |-> gs, year |-> y, emotion_scores |-> es]

\* year 0 stands for a missing release date (NULL)
CatalogA ==
    << Row(11, <<"drama">>, 2018, [sad |-> 2, calm |-> 0]),
       Row(12, <<"romance", "drama">>, 2013, [sad |-> 1, calm |-> 1]),
       Row(13, <<"animation">>, 2015, [calm |-> 2]),
       Row(14, <<"musical", "romance">>, 2016, [sad |-> 2, calm |-> 1]),
       Row(15, <<"drama", "thriller">>, 2019, [sad |-> 1, calm |-> 2]),
       Row(16, <<"thriller">>, 0, [sad |-> 0, calm |-> 0]) >>

\* five rows, two of them romance
CatalogB == SubSeq(CatalogA, 1, 5)

Catalogs == {CatalogA, CatalogB, SubSeq(CatalogA, 1, 2), <<>>}

Cand(id, gs, y, sim) ==
    [movie_id |-> id, genres |-> gs, release_year |-> y, similarity_score |-> sim]

\* the similarity 0.92 is the squared rational <<92 * 92, 100 * 100>>
dummy_movies ==
    << Cand(1, <<"drama">>, 2018, <<8464, 10000>>),
       Cand(2, <<"romance", "drama">>, 2013, <<7744, 10000>>),
       Cand(3, <<"animation">>, 2015, <<7225, 10000>>),
       Cand(4, <<"musical", "romance">>, 2016, <<6724, 10000>>),
       Cand(5, <<"drama", "thriller">>, 2019, <<6400, 10000>>) >>

----------------------------------------------------------------------------
(* MovieDBConnector *)

\* dict.get(tag, 0.0) for every tag of the fixed tag order
_emotion_scores_to_vector(es) ==
    [i \in DOMAIN EmotionTags |->
        IF EmotionTags[i] \in DOMAIN es THEN es[EmotionTags[i]] ELSE 0]

RECURSIVE DotUpTo(_, _, _)
DotUpTo(a, b, n) == IF n = 0 THEN 0 ELSE DotUpTo(a, b, n - 1) + a[n] * b[n]

Dot(a, b) == DotUpTo(a, b, Len(a))

\* cos^2 as <<num, den>>; 0 when a norm is 0.  Scores are >= 0, so the
\* order of the squares is the order of the cosines.
_cosine_similarity(v1, v2) ==
    LET n == Dot(v1, v1) * Dot(v2, v2)
    IN  IF n = 0 THEN <<0, 1>> ELSE <<Dot(v1, v2) * Dot(v1, v2), n>>

SimGeq(a, b) == a[1] * b[2] >= b[1] * a[2]

\* list.sort(key=similarity_score, reverse=True): stable, descending
InsertDesc(sorted, x) ==
    LET p == Cardinality({i \in DOMAIN sorted :
                 SimGeq(sorted[i].similarity_score, x.similarity_score)})
    IN  SubSeq(sorted, 1, p) \o <<x>> \o SubSeq(sorted, p + 1, Len(sorted))

RECURSIVE SortDescUpTo(_, _)
SortDescUpTo(s, n) ==
    IF n = 0 THEN <<>> ELSE InsertDesc(SortDescUpTo(s, n - 1), s[n])

SortDesc(s) == SortDescUpTo(s, Len(s))

\* "if year_from:" and "if year_to:": 0 and None both mean no bound; a NULL
\* release date fails every year comparison in SQL
YearOk(row, year_from, year_to) ==
    /\ (year_from # 0 => (row.year # 0 /\ row.year >= year_from))
    /\ (year_to # 0 => (row.year # 0 /\ row.year <= year_to))

\* "if genres:": None and [] both mean no filter
GenreOk(row, genres) ==
    genres # <<>> => (Range(genres) \cap Range(row.genres) # {})

\* the variant that cuts to top_k before the genre filter is applied
SearchCuttingFirst(db, emotion_scores, top_k, genres, year_from, year_to) ==
    LET movie_vectors == SelectSeq(db, LAMBDA row : YearOk(row, year_from, year_to))
        query_vector == _emotion_scores_to_vector(emotion_scores)
        similarities ==
            [i \in DOMAIN movie_vectors |->
                Cand(movie_vectors[i].id, movie_vectors[i].genres, movie_vectors[i].year,
                     _cosine_similarity(query_vector,
                         _emotion_scores_to_vector(movie_vectors[i].emotion_scores)))]
    IN  SelectSeq(Take(SortDesc(similarities), top_k),
                  LAMBDA c : GenreOk(c, genres))

search_movies_by_emotion(db, emotion_scores, top_k, genres, year_from, year_to) ==
    LET movie_vectors == SelectSeq(db, LAMBDA row : YearOk(row, year_from, year_to))
        query_vector == _emotion_scores_to_vector(emotion_scores)
        kept == SelectSeq(movie_vectors, LAMBDA row : GenreOk(row, genres))
        similarities ==
            [i \in DOMAIN kept |->
                Cand(kept[i].id, kept[i].genres, kept[i].year,
                     _cosine_similarity(query_vector,
                         _emotion_scores_to_vector(kept[i].emotion_scores)))]
    IN  IF movie_vectors = <<>> THEN <<>>
        ELSE Take(SortDesc(similarities), top_k)

----------------------------------------------------------------------------
(* MovieRetriever *)

_get_dummy_candidates(top_k) == Take(dummy_movies, top_k)

\* self.vector_db is None for the whole life of the retriever, so the
\* vector-db branch is never taken
retrieve_by_emotion(conn, db, emotion_scores, top_k, genres, year_from, year_to) ==
    LET found == IF conn = "ok"
                 THEN search_movies_by_emotion(db, emotion_scores, top_k,
                                               genres, year_from, year_to)
                 ELSE <<>>   \* no connector, or the search raised and was caught
    IN  IF found # <<>> THEN found ELSE _get_dummy_candidates(top_k)

----------------------------------------------------------------------------
(* Generator responses *)

\* A response text is the sequence of the pieces the two regular expressions
\* of _extract_movie_ids can see.  "json": a {..."selected_ids"...} fragment
\* that parses, with the list it holds (a fragment without the key is the
\* empty list); "scalar": one that parses to a number or null instead of a
\* list; "badjson": one that json.loads rejects; "tag": "[ID: n]"; "word":
\* anything else.
Tok(t, ids) == [t |-> t, ids |-> ids]

IdLists == {<<>>, <<11>>, <<99>>, <<12, 11>>, <<11, 99>>, <<11, 11>>, <<1, 2>>, <<99, 1>>}

TagIds == {11, 99, 1}

Tokens ==
    {Tok("json", l) : l \in IdLists}
        \cup {Tok("tag", <<i>>) : i \in TagIds}
        \cup {Tok("badjson", <<>>), Tok("scalar", <<>>), Tok("word", <<>>)}

MaxTokens == 2

Texts == UNION {[1..n -> Tokens] : n \in 0..MaxTokens}

\* the two-request specification draws from a few texts only
FewTexts ==
    {<<>>, <<Tok("json", <<11, 99>>)>>, <<Tok("json", <<1, 2>>)>>,
     <<Tok("badjson", <<>>), Tok("tag", <<1>>)>>}

----------------------------------------------------------------------------
(* LLMRecommender *)

Reqs == {1, 2}

FallbackN == 5

IsFragment(tok) == tok.t \in {"json", "scalar", "badjson"}

\* re.search: the first fragment of the text, or None
JsonMatch(text) ==
    LET hits == SelectSeq(text, IsFragment)
    IN  IF hits = <<>> THEN None ELSE hits[1]

\* re.findall of the [ID: n] pattern
TagMatches(text) ==
    LET hits == SelectSeq(text, LAMBDA tok : tok.t = "tag")
    IN  [i \in DOMAIN hits |-> hits[i].ids[1]]

CandidateIds(cands) == [i \in DOMAIN cands |-> cands[i].movie_id]

Extracted(ids) == [err |-> FALSE, ids |-> ids]

\* iterating a number or null raises TypeError, which is not caught
ExtractRaised == [err |-> TRUE, ids |-> <<>>]

\* the variant that puts the top candidate in the place of an unknown ID
ExtractSubstituting(llm_response, cands) ==
    LET m == JsonMatch(llm_response)
        valid_ids == CandidateIds(cands)
        sub(l) == [i \in DOMAIN l |->
                      IF l[i] \in Range(valid_ids) THEN l[i] ELSE valid_ids[1]]
    IN  IF m # None /\ m.t = "json" THEN Extracted(sub(m.ids))
        ELSE IF m # None /\ m.t = "scalar" THEN ExtractRaised
        ELSE IF TagMatches(llm_response) # <<>>
             THEN Extracted(sub(TagMatches(llm_response)))
        ELSE Extracted(Take(valid_ids, FallbackN))

\* the variant that reads the [ID: n] tags before the structured fragment
ExtractTagsFirst(llm_response, cands) ==
    LET m == JsonMatch(llm_response)
        valid_ids == CandidateIds(cands)
        keep(l) == SelectSeq(l, LAMBDA mid : mid \in Range(valid_ids))
    IN  IF TagMatches(llm_response) # <<>>
        THEN Extracted(keep(TagMatches(llm_response)))
        ELSE IF m # None /\ m.t = "json" THEN Extracted(keep(m.ids))
        ELSE IF m # None /\ m.t = "scalar" THEN ExtractRaised
        ELSE Extracted(Take(valid_ids, FallbackN))

_extract_movie_ids(llm_response, cands) ==
    LET m == JsonMatch(llm_response)
        valid_ids == CandidateIds(cands)
        keep(l) == SelectSeq(l, LAMBDA mid : mid \in Range(valid_ids))
    IN  IF m # None /\ m.t = "json" THEN Extracted(keep(m.ids))
        ELSE IF m # None /\ m.t = "scalar" THEN ExtractRaised
        ELSE IF TagMatches(llm_response) # <<>>
             THEN Extracted(keep(TagMatches(llm_response)))
        ELSE Extracted(Take(valid_ids, FallbackN))

\* next((c for c in candidates if c["movie_id"] == movie_id), None)
FirstWithId(cands, movie_id) ==
    LET hits == SelectSeq(cands, LAMBDA c : c.movie_id = movie_id)
    IN  IF hits = <<>> THEN <<>> ELSE <<hits[1]>>

RECURSIVE LookupUpTo(_, _, _)
LookupUpTo(selected, cands, n) ==
    IF n = 0 THEN <<>>
    ELSE LookupUpTo(selected, cands, n - 1) \o FirstWithId(cands, selected[n])

\* step 4 of recommend: the movies of selected_ids[:top_k]
SelectedMovies(selected_ids, cands, top_k) ==
    LookupUpTo(selected_ids, cands, Min(top_k, Len(selected_ids)))

Returned(body) == [status |-> "ok", body |-> body]

Raised == [status |-> "raised", body |-> None]

Pending == [status |-> "pending", body |-> None]

NoMatchText == <<Tok("word", <<>>)>>

EmptyResponse ==
    [recommendations |-> <<>>, explanation |-> NoMatchText, candidates_count |-> 0]

Request(es, top_k, pool, genres, year_from, year_to) ==
    [emotion_scores |-> es, top_k |-> top_k, candidate_pool_size |-> pool,
     genres |-> genres, year_from |-> year_from, year_to |-> year_to]

Retrieved(rq) ==
    retrieve_by_emotion(dbconn, movies, rq.emotion_scores, rq.candidate_pool_size,
                        rq.genres, rq.year_from, rq.year_to)

\* the variant that lists the first candidate only
FormatFirstOnly(cands) ==
    [i \in DOMAIN Take(cands, 1) |->
        [movie_id |-> cands[i].movie_id, genres |-> cands[i].genres,
         release_year |-> cands[i].release_year]]

\* one numbered entry per candidate, in order: "[ID: n]", genres, year
format_candidates_for_llm(cands) ==
    [i \in DOMAIN cands |->
        [movie_id |-> cands[i].movie_id, genres |-> cands[i].genres,
         release_year |-> cands[i].release_year]]

\* the variant that keeps the candidates in a field of the shared recommender
RetrieveIntoSharedField(r, requests) ==
    /\ pc[r] = "idle"
    /\ \E rq \in requests :
        LET cands == Retrieved(rq)
        IN  /\ req' = [req EXCEPT ![r] = rq]
            /\ candidates' = [q \in Reqs |-> cands]
            /\ IF cands = <<>>
               THEN /\ resp' = [resp EXCEPT ![r] = Returned(EmptyResponse)]
                    /\ pc' = [pc EXCEPT ![r] = "done"]
               ELSE /\ pc' = [pc EXCEPT ![r] = "generate"]
                    /\ UNCHANGED resp
    /\ UNCHANGED <<movies, dbconn, result, genCalls, prompt, notRec>>

\* the variant without the early return on an empty candidate list
RetrieveWithoutEmptyCheck(r, requests) ==
    /\ pc[r] = "idle"
    /\ \E rq \in requests :
        /\ req' = [req EXCEPT ![r] = rq]
        /\ candidates' = [candidates EXCEPT ![r] = Retrieved(rq)]
        /\ pc' = [pc EXCEPT ![r] = "generate"]
    /\ UNCHANGED <<movies, dbconn, result, resp, genCalls, prompt, notRec>>

\* recommend, step 1: retrieval, and the early return on no candidates
RecommendRetrieve(r, requests) ==
    /\ pc[r] = "idle"
    /\ \E rq \in requests :
        LET cands == Retrieved(rq)
        IN  /\ req' = [req EXCEPT ![r] = rq]
            /\ candidates' = [candidates EXCEPT ![r] = cands]
            /\ IF cands = <<>>
               THEN /\ resp' = [resp EXCEPT ![r] = Returned(EmptyResponse)]
                    /\ pc' = [pc EXCEPT ![r] = "done"]
               ELSE /\ pc' = [pc EXCEPT ![r] = "generate"]
                    /\ UNCHANGED resp
    /\ UNCHANGED <<movies, dbconn, result, genCalls, prompt, notRec>>

\* recommend, step 2: the listing of the candidates goes into the system
\* prompt of llm_client.generate; an error of the call (transport, timeout,
\* malformed response body) is not caught and leaves recommend
RecommendGenerate(r, texts) ==
    /\ pc[r] = "generate"
    /\ prompt' = [prompt EXCEPT ![r] = format_candidates_for_llm(candidates[r])]
    /\ genCalls' = [genCalls EXCEPT ![r] = @ + 1]
    /\ \/ /\ result' = [result EXCEPT ![r] = [failed |-> TRUE, response |-> <<>>]]
          /\ resp' = [resp EXCEPT ![r] = Raised]
          /\ pc' = [pc EXCEPT ![r] = "done"]
       \/ /\ \E text \in texts :
                result' = [result EXCEPT ![r] = [failed |-> FALSE, response |-> text]]
          /\ pc' = [pc EXCEPT ![r] = "validate"]
          /\ UNCHANGED resp
    /\ UNCHANGED <<movies, dbconn, req, candidates, notRec>>

\* recommend, steps 3 and 4: parse the response, look the movies up, return
RecommendValidate(r) ==
    /\ pc[r] = "validate"
    /\ LET selected == _extract_movie_ids(result[r].response, candidates[r])
       IN  resp' = [resp EXCEPT ![r] =
                IF selected.err THEN Raised
                ELSE Returned(
                    [recommendations |->
                         SelectedMovies(selected.ids, candidates[r], req[r].top_k),
                     explanation |-> result[r].response,
                     candidates_count |-> Len(candidates[r]),
                     usage |-> Len(result[r].response)])]
    /\ pc' = [pc EXCEPT ![r] = "done"]
    /\ UNCHANGED <<movies, dbconn, req, candidates, result, genCalls, prompt, notRec>>

Query1 == [sad |-> 2, calm |-> 1]

NoRequest == Request(<<>>, 0, 0, <<>>, 0, 0)

RecRequests ==
    {Request(Query1, k, p, <<>>, 0, 0) : k \in {1, 2, 6}, p \in {0, 2, 20}}
        \cup {Request(Query1, 2, 20, <<"scifi">>, 0, 0),
              Request(Query1, 2, 20, <<"drama">>, 2015, 0)}

\* two requests whose filters select different movies
FewRequests ==
    {Request(Query1, 2, 20, <<"drama">>, 0, 0),
     Request(Query1, 1, 20, <<"animation">>, 0, 0),
     Request(Query1, 2, 0, <<>>, 0, 0)}

NotSearched == [by |-> "none", found |-> <<>>]

NoFile == [exists |-> FALSE]

\* movie_profiles_file: given says whether a file is named, items is its list
NoProfilesFile == [given |-> FALSE, items |-> <<>>]

NoIndexInput ==
    [db_cache_path |-> FALSE, movies |-> <<>>, movie_profiles_file |-> NoProfilesFile]

IndexIdle ==
    /\ idxIn = NoIndexInput
    /\ cacheFile = NoFile
    /\ dbs = <<>>

NotScored == [done |-> FALSE]

ScoreIdle ==
    /\ scIn = None
    /\ scOut = NotScored

SearchIdle ==
    /\ sIn = NoRequest
    /\ sOut = NotSearched

GroupIdle ==
    /\ agIn = None
    /\ agOut = None
    /\ sgIn = None
    /\ sgOut = None

ExplainIdle ==
    /\ exIn = None
    /\ exOut = None

TaxonomyIdle ==
    /\ txIn = None
    /\ txOut = None

UpdaterIdle ==
    /\ store = None
    /\ upIn = None
    /\ upOut = None

ChatIdle ==
    /\ conversation_history = <<>>
    /\ chatOut = None
    /\ chatCalls = 0

PreferenceIdle ==
    /\ apIn = None
    /\ apOut = None

RecInit ==
    /\ movies = CatalogA
    /\ dbconn \in {"ok", "none", "raises"}
    /\ pc = [r \in Reqs |-> "idle"]
    /\ req = [r \in Reqs |-> NoRequest]
    /\ candidates = [r \in Reqs |-> <<>>]
    /\ result = [r \in Reqs |-> [failed |-> FALSE, response |-> <<>>]]
    /\ resp = [r \in Reqs |-> Pending]
    /\ genCalls = [r \in Reqs |-> 0]
    /\ prompt = [r \in Reqs |-> <<>>]
    /\ SearchIdle
    /\ IndexIdle
    /\ ScoreIdle
    /\ GroupIdle
    /\ ExplainIdle
    /\ TaxonomyIdle
    /\ UpdaterIdle
    /\ ChatIdle
    /\ PreferenceIdle

\* one request at a time
NextRec ==
    \/ RecommendRetrieve(1, RecRequests)
    \/ RecommendGenerate(1, Texts)
    \/ RecommendValidate(1)

SpecRec == RecInit /\ [][NextRec]_vars

\* two requests handled by the one recommender of api_recommend.py
NextConc ==
    \E r \in Reqs :
        \/ RecommendRetrieve(r, FewRequests)
        \/ RecommendGenerate(r, FewTexts)
        \/ RecommendValidate(r)

SpecConc == RecInit /\ [][NextConc]_vars

----------------------------------------------------------------------------
(* Claims about LLMRecommender.recommend *)

Finished(r) == pc[r] = "done"

Answered(r) == pc[r] = "done" /\ resp[r].status = "ok"

Recs(r) == resp[r].body.recommendations

MentionedIds(text) == UNION {Range(text[i].ids) : i \in DOMAIN text}

\* the generator made a selection the parser reads: a well-formed first
\* fragment, or [ID: n] tags
SelectionMade(text) ==
    \/ (JsonMatch(text) # None /\ JsonMatch(text).t = "json")
    \/ TagMatches(text) # <<>>

\* C1: every recommended item is one of the request's candidates, and when
\* the generator made a selection every recommended ID is one it mentioned
\* (an unknown ID is dropped, nothing is put in its place).
C1_AllowlistEnforced ==
    \A r \in Reqs :
        Answered(r) =>
            \A i \in DOMAIN Recs(r) :
                /\ Recs(r)[i] \in Range(candidates[r])
                /\ (genCalls[r] > 0 /\ SelectionMade(result[r].response)) =>
                       Recs(r)[i].movie_id \in MentionedIds(result[r].response)

\* a response that names a candidate and an ID outside the candidate set
C1_Witness ==
    \E r \in Reqs :
        /\ Answered(r)
        /\ Recs(r) # <<>>
        /\ SelectionMade(result[r].response)
        /\ MentionedIds(result[r].response) \ Range(CandidateIds(candidates[r])) # {}

\* C2: when the generator call fails, recommend returns the fallback ranking
\* of the retrieved candidates, as for a response with nothing to parse.
C2_GeneratorFailureFallsBack ==
    \A r \in Reqs :
        (Finished(r) /\ result[r].failed) =>
            /\ resp[r].status = "ok"
            /\ Recs(r) = SelectedMovies(_extract_movie_ids(<<>>, candidates[r]).ids,
                                        candidates[r], req[r].top_k)

\* no valid ID can be read from the text
InvalidResponse(text, cands) ==
    LET m == JsonMatch(text)
        valid == Range(CandidateIds(cands))
    IN  IF m # None /\ m.t = "json"
        THEN Range(m.ids) \cap valid = {}
        ELSE Range(TagMatches(text)) \cap valid = {}

\* C3: with candidates and an unparsable or invalid response, the
\* recommendations are a non-empty prefix of the candidates.
C3_InvalidResponseFallsBack ==
    \A r \in Reqs :
        ( /\ Finished(r)
          /\ genCalls[r] > 0
          /\ ~result[r].failed
          /\ candidates[r] # <<>>
          /\ req[r].top_k >= 1
          /\ InvalidResponse(result[r].response, candidates[r]) ) =>
            /\ resp[r].status = "ok"
            /\ Recs(r) # <<>>
            /\ \E n \in 1..Len(candidates[r]) : Recs(r) = Take(candidates[r], n)

\* C4: every finished request returned a response with the ranked list, the
\* rationale text, the candidate count and the generator_used flag.
C4_ResponseShape ==
    \A r \in Reqs :
        Finished(r) =>
            /\ resp[r].status = "ok"
            /\ {"recommendations", "explanation", "candidates_count", "generator_used"}
                   \subseteq DOMAIN resp[r].body
            /\ resp[r].body.generator_used \in BOOLEAN

\* C5: with no candidates recommend returns the empty response and the
\* generator was not invoked.
C5_EmptyPool ==
    \A r \in Reqs :
        (Finished(r) /\ candidates[r] = <<>>) =>
            /\ resp[r] = Returned(EmptyResponse)
            /\ resp[r].body.recommendations = <<>>
            /\ resp[r].body.candidates_count = 0
            /\ genCalls[r] = 0

C5_Witness ==
    \E r \in Reqs :
        /\ Finished(r)
        /\ req[r].candidate_pool_size = 0
        /\ candidates[r] = <<>>
        /\ resp[r].status = "ok"

\* what recommend returns for a request handled alone, given the outcome of
\* its generator call
RecommendAlone(rq, res) ==
    LET cands == Retrieved(rq)
        selected == _extract_movie_ids(res.response, cands)
    IN  IF cands = <<>> THEN Returned(EmptyResponse)
        ELSE IF res.failed \/ selected.err THEN Raised
        ELSE Returned([recommendations |-> SelectedMovies(selected.ids, cands, rq.top_k),
                       explanation |-> res.response,
                       candidates_count |-> Len(cands),
                       usage |-> Len(res.response)])

\* C9: under every interleaving each request works on its own candidates and
\* returns what it returns when handled alone; with disjoint candidate sets
\* no candidate of one request is in the other's response.
C9_NoInterference ==
    \A r \in Reqs :
        /\ pc[r] # "idle" => candidates[r] = Retrieved(req[r])
        /\ Finished(r) => resp[r] = RecommendAlone(req[r], result[r])
        /\ \A q \in Reqs \ {r} :
              ( /\ Answered(r)
                /\ pc[q] # "idle"
                /\ Range(Retrieved(req[r])) \cap Range(Retrieved(req[q])) = {} ) =>
                    Range(Recs(r)) \cap Range(Retrieved(req[q])) = {}

\* both requests are between their generator call and their validation
C9_Witness ==
    /\ pc[1] = "validate"
    /\ pc[2] = "validate"
    /\ Range(candidates[1]) \cap Range(candidates[2]) = {}
    /\ result[1].response # result[2].response

----------------------------------------------------------------------------
(* Candidate search on its own *)

MaxK == 3

SearchQueries == {Query1, [calm |-> 1], [sad |-> 0]}

SearchGenres == {<<>>, <<"romance">>, <<"drama", "thriller">>, <<"scifi">>}

SearchRequests ==
    {Request(es, 0, k, gs, yf, yt) :
        es \in SearchQueries, k \in 0..MaxK, gs \in SearchGenres,
        yf \in {0, 2015, 2030}, yt \in {0, 2016}}

RecIdle ==
    /\ pc = [r \in Reqs |-> "idle"]
    /\ req = [r \in Reqs |-> NoRequest]
    /\ candidates = [r \in Reqs |-> <<>>]
    /\ result = [r \in Reqs |-> [failed |-> FALSE, response |-> <<>>]]
    /\ resp = [r \in Reqs |-> Pending]
    /\ genCalls = [r \in Reqs |-> 0]
    /\ prompt = [r \in Reqs |-> <<>>]

SearchInit ==
    /\ movies \in Catalogs
    /\ dbconn \in {"ok", "none", "raises"}
    /\ RecIdle
    /\ SearchIdle
    /\ IndexIdle
    /\ ScoreIdle
    /\ GroupIdle
    /\ ExplainIdle
    /\ TaxonomyIdle
    /\ UpdaterIdle
    /\ ChatIdle
    /\ PreferenceIdle

\* MovieDBConnector.search_movies_by_emotion called on a working connection
ConnectorSearch ==
    /\ sOut = NotSearched
    /\ dbconn = "ok"
    /\ \E rq \in SearchRequests :
        /\ sIn' = rq
        /\ sOut' = [by |-> "connector",
                    found |-> search_movies_by_emotion(movies, rq.emotion_scores,
                                  rq.candidate_pool_size, rq.genres,
                                  rq.year_from, rq.year_to)]
    /\ UNCHANGED notSearch

\* MovieRetriever.retrieve_by_emotion
RetrieverSearch ==
    /\ sOut = NotSearched
    /\ \E rq \in SearchRequests :
        /\ sIn' = rq
        /\ sOut' = [by |-> "retriever",
                    found |-> retrieve_by_emotion(dbconn, movies, rq.emotion_scores,
                                  rq.candidate_pool_size, rq.genres,
                                  rq.year_from, rq.year_to)]
    /\ UNCHANGED notSearch

NextSearch == ConnectorSearch \/ RetrieverSearch

SpecSearch == SearchInit /\ [][NextSearch]_vars

----------------------------------------------------------------------------
(* Claims about candidate search *)

\* an item passes the request's filters: it has one of the requested genres
\* and its release year is known and inside the requested range
PassesFilters(gs, year, rq) ==
    /\ rq.genres # <<>> => \E g \in Range(rq.genres) : g \in Range(gs)
    /\ rq.year_from # 0 => (year # 0 /\ year >= rq.year_from)
    /\ rq.year_to # 0 => (year # 0 /\ year <= rq.year_to)

MatchingRows(rq) ==
    {i \in DOMAIN movies : PassesFilters(movies[i].genres, movies[i].year, rq)}

\* C6: on a working connection and a non-empty catalog every candidate retrieve_by_emotion returns
\* passes the request's filters, and the result is empty when no catalog
\* item passes them.
C6_RetrievalRespectsFilters ==
    (sOut.by = "retriever" /\ dbconn = "ok" /\ movies # <<>>) =>
        /\ \A i \in DOMAIN sOut.found :
              PassesFilters(sOut.found[i].genres, sOut.found[i].release_year, sIn)
        /\ MatchingRows(sIn) = {} => sOut.found = <<>>

RowSim(i) ==
    _cosine_similarity(_emotion_scores_to_vector(sIn.emotion_scores),
                       _emotion_scores_to_vector(movies[i].emotion_scores))

\* C7: the connector search returns min(k, m) of the m catalog items that
\* pass the filters, each once and with its similarity to the query, in
\* non-increasing similarity order, and no item left out is more similar
\* than one returned.
C7_TopKOfMatching ==
    sOut.by = "connector" =>
        LET out == sOut.found
            k == sIn.candidate_pool_size
            src(j) == {i \in MatchingRows(sIn) : movies[i].id = out[j].movie_id}
            used == UNION {src(j) : j \in DOMAIN out}
        IN  /\ Len(out) = Min(k, Cardinality(MatchingRows(sIn)))
            /\ \A j \in DOMAIN out :
                  /\ src(j) # {}
                  /\ \A i \in src(j) :
                        /\ out[j].similarity_score = RowSim(i)
                        /\ out[j].genres = movies[i].genres
            /\ \A j1, j2 \in DOMAIN out :
                  /\ j1 # j2 => out[j1].movie_id # out[j2].movie_id
                  /\ j1 < j2 =>
                        SimGeq(out[j1].similarity_score, out[j2].similarity_score)
            /\ \A i \in MatchingRows(sIn) \ used :
                  \A j \in DOMAIN out : SimGeq(out[j].similarity_score, RowSim(i))

\* five items, two of them romance, k = 3: exactly those two are returned
C7_Witness ==
    /\ sOut.by = "connector"
    /\ movies = CatalogB
    /\ sIn.genres = <<"romance">>
    /\ sIn.candidate_pool_size = 3
    /\ sIn.year_from = 0
    /\ sIn.year_to = 0
    /\ Len(sOut.found) = 2
    /\ {sOut.found[j].movie_id : j \in DOMAIN sOut.found} = {12, 14}

----------------------------------------------------------------------------
(* Index snapshot cache: load_or_build_db *)

e_keys == EmotionTags

n_keys == <<"twist">>

ending_keys == <<"happy", "open", "bittersweet">>

Get(d, k) == IF k \in DOMAIN d THEN d[k] ELSE 0

\* {k: float(profile.get(category, {}).get(k, 0.0)) for k in keys}
NormalizeCategory(profile, category, keys) ==
    LET d == IF category \in DOMAIN profile THEN profile[category] ELSE <<>>
    IN  [k \in Range(keys) |-> Get(d, k)]

normalize_profile(profile) ==
    [emotion_scores |-> NormalizeCategory(profile, "emotion_scores", e_keys),
     narrative_traits |-> NormalizeCategory(profile, "narrative_traits", n_keys),
     ending_preference |-> NormalizeCategory(profile, "ending_preference", ending_keys)]

\* the category score arrays one after the other, in taxonomy key order
profile_to_vector(profile) ==
    [i \in 1..Len(e_keys) |-> Get(profile.emotion_scores, e_keys[i])]
        \o [i \in 1..Len(n_keys) |-> Get(profile.narrative_traits, n_keys[i])]

\* a deterministic profile of the movie's metadata (a stable hash in the
\* reference implementation)
build_profile(movie) ==
    [emotion_scores |-> [sad |-> movie.id % 3, calm |-> (movie.id + 1) % 3],
     narrative_traits |-> [twist |-> (movie.id + 2) % 3],
     ending_preference |-> [happy |-> 1, open |-> 0, bittersweet |-> 0]]

Meta(id, title, gs, y, profile) ==
    [id |-> id, title |-> title, genres |-> gs, release_year |-> y, profile |-> profile]

\* LocalVectorDB.add: an index is the sequence of its (vector, metadata) entries
DbAdd(db, vector, metadata) == Append(db, [vector |-> vector, metadata |-> metadata])

build_vector_db(ms, profiles) ==
    [i \in DOMAIN ms |->
        [vector |-> profile_to_vector(profiles[i]),
         metadata |-> Meta(ms[i].id, ms[i].title, ms[i].genres, ms[i].release_year,
                           profiles[i])]]

\* LocalVectorDB.save: the snapshot keeps the vectors and the metadata as two
\* parallel arrays
DbSave(db) ==
    [exists |-> TRUE,
     vectors |-> [i \in DOMAIN db |-> db[i].vector],
     metadata |-> [i \in DOMAIN db |-> db[i].metadata]]

\* LocalVectorDB.load
DbLoad(file) ==
    [i \in DOMAIN file.vectors |->
        [vector |-> file.vectors[i], metadata |-> file.metadata[i]]]

NoFilters == [genres |-> <<>>, year_from |-> 0, year_to |-> 0]

MetaPasses(m, filters) ==
    /\ filters.genres # <<>> => Range(filters.genres) \cap Range(m.genres) # {}
    /\ filters.year_from # 0 => (m.release_year # 0 /\ m.release_year >= filters.year_from)
    /\ filters.year_to # 0 => (m.release_year # 0 /\ m.release_year <= filters.year_to)

\* LocalVectorDB.search: filter, rank by cosine similarity, keep the top k
DbSearch(db, query_vector, k, filters) ==
    LET kept == SelectSeq(db, LAMBDA e : MetaPasses(e.metadata, filters))
        scored == [i \in DOMAIN kept |->
                      [metadata |-> kept[i].metadata,
                       similarity_score |-> _cosine_similarity(query_vector, kept[i].vector)]]
        top == Take(SortDesc(scored), k)
    IN  [i \in DOMAIN top |->
            [metadata |-> top[i].metadata, score |-> top[i].similarity_score]]

InMovie(id, title, gs, y) == [id |-> id, title |-> title, genres |-> gs, release_year |-> y]

IndexMoviePool ==
    {InMovie(21, "A", <<"drama">>, 2018),
     InMovie(22, "B", <<"romance">>, 2013),
     InMovie(23, "C", <<"drama", "thriller">>, 2020)}

\* items of the --movie-profiles file: a profile without a title, one with a
\* title and sparse scores, and an entry that is not an object
ProfileItemPool ==
    {[isdict |-> TRUE, movie_id |-> 21, title |-> "",
      emotion_scores |-> [sad |-> 2, calm |-> 1], narrative_traits |-> [twist |-> 1]],
     [isdict |-> TRUE, movie_id |-> 24, title |-> "D",
      emotion_scores |-> [calm |-> 2], narrative_traits |-> <<>>],
     [isdict |-> FALSE]}

MaxIndexLen == 2

MaxCalls == 2

SeqsUpTo(S, n) == UNION {[1..m -> S] : m \in 0..n}

IndexInputs ==
    {[db_cache_path |-> c, movies |-> ms, movie_profiles_file |-> f] :
        c \in BOOLEAN,
        ms \in SeqsUpTo(IndexMoviePool, MaxIndexLen),
        f \in {NoProfilesFile}
                 \cup {[given |-> TRUE, items |-> l] :
                          l \in SeqsUpTo(ProfileItemPool, MaxIndexLen)}}

\* movie_map.get(movie_id, {}): the last movie with that id, or no movie
SourceMovie(ms, movie_id) ==
    LET hits == SelectSeq(ms, LAMBDA m : m.id = movie_id)
    IN  IF hits = <<>> THEN <<>> ELSE hits[Len(hits)]

\* one round of the loop over raw_profiles
AddProfileItem(db, item, ms) ==
    IF ~item.isdict THEN db
    ELSE LET movie_profile == normalize_profile(item)
             source_movie == SourceMovie(ms, item.movie_id)
             title == IF item.title # "" THEN item.title
                      ELSE IF source_movie # <<>> THEN source_movie.title ELSE ""
         IN  IF title = "" THEN db
             ELSE DbAdd(db, profile_to_vector(movie_profile),
                        Meta(item.movie_id, title,
                             IF source_movie # <<>> THEN source_movie.genres ELSE <<>>,
                             IF source_movie # <<>> THEN source_movie.release_year ELSE 0,
                             movie_profile))

RECURSIVE AddProfileItems(_, _, _)
AddProfileItems(items, n, ms) ==
    IF n = 0 THEN <<>>
    ELSE AddProfileItem(AddProfileItems(items, n - 1, ms), items[n], ms)

\* the part of load_or_build_db that builds the index from its inputs
BuildDb(in) ==
    IF in.movie_profiles_file.given
    THEN AddProfileItems(in.movie_profiles_file.items,
                         Len(in.movie_profiles_file.items), in.movies)
    ELSE build_vector_db(in.movies, [i \in DOMAIN in.movies |-> build_profile(in.movies[i])])

\* the variant that writes the snapshot before the index is filled
LoadOrBuildSavingFirst ==
    /\ Len(dbs) < MaxCalls
    /\ IF idxIn.db_cache_path /\ cacheFile.exists
       THEN /\ dbs' = Append(dbs, [via |-> "load", db |-> DbLoad(cacheFile)])
            /\ UNCHANGED cacheFile
       ELSE /\ dbs' = Append(dbs, [via |-> "build", db |-> BuildDb(idxIn)])
            /\ cacheFile' = IF idxIn.db_cache_path THEN DbSave(<<>>) ELSE cacheFile
    /\ UNCHANGED <<idxIn, notIndex>>

\* one call of load_or_build_db with the arguments idxIn
load_or_build_db ==
    /\ Len(dbs) < MaxCalls
    /\ IF idxIn.db_cache_path /\ cacheFile.exists
       THEN /\ dbs' = Append(dbs, [via |-> "load", db |-> DbLoad(cacheFile)])
            /\ UNCHANGED cacheFile
       ELSE LET db == BuildDb(idxIn)
            IN  /\ dbs' = Append(dbs, [via |-> "build", db |-> db])
                /\ cacheFile' = IF idxIn.db_cache_path THEN DbSave(db) ELSE cacheFile
    /\ UNCHANGED <<idxIn, notIndex>>

IndexInit ==
    /\ movies = <<>>
    /\ dbconn = "none"
    /\ RecIdle
    /\ SearchIdle
    /\ idxIn \in IndexInputs
    /\ cacheFile = NoFile
    /\ dbs = <<>>
    /\ ScoreIdle
    /\ GroupIdle
    /\ ExplainIdle
    /\ TaxonomyIdle
    /\ UpdaterIdle
    /\ ChatIdle
    /\ PreferenceIdle

NextIndex == load_or_build_db

SpecIndex == IndexInit /\ [][NextIndex]_vars

----------------------------------------------------------------------------
(* Claim about the index snapshot *)

IndexQueries == {<<1, 0, 0>>, <<1, 2, 1>>, <<0, 0, 2>>}

IndexFilters ==
    {NoFilters,
     [genres |-> <<"drama">>, year_from |-> 0, year_to |-> 0],
     [genres |-> <<>>, year_from |-> 2015, year_to |-> 2019]}

----------------------------------------------------------------------------
(* Satisfaction scorer: domain/a3_prediction.py *)

\* fixed point: the number x is kept as the integer x * Scale, rounded down
Scale == 100

\* weights are kept in tenths: 0.5 is 5
WeightScale == 10

RECURSIVE IsqrtBetween(_, _, _)
IsqrtBetween(n, lo, hi) ==
    IF lo >= hi THEN lo
    ELSE LET mid == (lo + hi + 1) \div 2
         IN  IF mid * mid <= n THEN IsqrtBetween(n, mid, hi)
             ELSE IsqrtBetween(n, lo, mid - 1)

\* math.sqrt, rounded down
Isqrt(n) == IsqrtBetween(n, 0, Min(n, 46340))

Max(a, b) == IF a >= b THEN a ELSE b

\* the keys of a dict, in the order of the category's tag list
KeysOf(d, order) == SelectSeq(order, LAMBDA k : k \in DOMAIN d)

\* [float(d.get(k, 0.0)) for k in keys]
_align_vector(d, keys) == [i \in DOMAIN keys |-> Get(d, keys[i])]

\* the variant that takes two vectors without direction as identical
CosineZeroAsIdentical(a, b) ==
    LET dot == Dot(a, b)
        nn == Dot(a, a) * Dot(b, b)
    IN  IF nn = 0 THEN Scale
        ELSE Min(Scale, (dot * Scale) \div Max(1, Isqrt(nn)))

\* cosine at Scale, 0 when a norm is 0
_cosine_sim(a, b) ==
    LET dot == Dot(a, b)
        nn == Dot(a, a) * Dot(b, b)
        mag == (IF dot >= 0 THEN dot ELSE 0 - dot) * Scale
    IN  IF nn = 0 THEN 0
        ELSE LET c == Min(Scale, mag \div Max(1, Isqrt(nn)))
             IN  IF dot >= 0 THEN c ELSE 0 - c

TagCategories ==
    <<"emotion_scores", "narrative_traits", "direction_mood", "character_relationship">>

RECURSIVE TagSumUpTo(_, _, _)
TagSumUpTo(d, tags, n) ==
    IF n = 0 THEN 0
    ELSE TagSumUpTo(d, tags, n - 1) + (IF tags[n] \in DOMAIN d THEN d[tags[n]] ELSE 0)

RECURSIVE CategorySumUpTo(_, _, _)
CategorySumUpTo(movie_profile, tags, n) ==
    IF n = 0 THEN 0
    ELSE CategorySumUpTo(movie_profile, tags, n - 1)
            + (IF TagCategories[n] \in DOMAIN movie_profile
               THEN TagSumUpTo(movie_profile[TagCategories[n]], tags, Len(tags))
               ELSE 0)

\* for each category, for each listed tag found there, add its score
_calculate_dislike_penalty(movie_profile, dislikes) ==
    CategorySumUpTo(movie_profile, dislikes, Len(TagCategories))

_calculate_boost_score(movie_profile, boost_tags) ==
    CategorySumUpTo(movie_profile, boost_tags, Len(TagCategories))

\* the variant that sorts ascending and reverses: equal similarities come
\* out in reverse input order
TopFactorsReversingTies(sim_e, sim_n, sim_d) ==
    LET factors == << [label |-> "ending", similarity_score |-> <<sim_d + Scale, 1>>],
                      [label |-> "narrative", similarity_score |-> <<sim_n + Scale, 1>>],
                      [label |-> "emotion", similarity_score |-> <<sim_e + Scale, 1>>] >>
        sorted == SortDesc(factors)
    IN  <<sorted[1].label, sorted[2].label>>

\* the two labels with the highest similarity; the sort is stable
_top_factors(sim_e, sim_n, sim_d) ==
    LET factors == << [label |-> "emotion", similarity_score |-> <<sim_e + Scale, 1>>],
                      [label |-> "narrative", similarity_score |-> <<sim_n + Scale, 1>>],
                      [label |-> "ending", similarity_score |-> <<sim_d + Scale, 1>>] >>
        sorted == SortDesc(factors)
    IN  <<sorted[1].label, sorted[2].label>>

PenaltyWeightDefault == 7

BoostWeightDefault == 5

DefaultWeights == [emotion |-> 5, narrative |-> 3, ending |-> 2]

Category(profile, name) == IF name \in DOMAIN profile THEN profile[name] ELSE <<>>

Sims(user_profile, movie_profile) ==
    LET sim(name, order) ==
            LET keys == KeysOf(Category(user_profile, name), order)
            IN  _cosine_sim(_align_vector(Category(user_profile, name), keys),
                            _align_vector(Category(movie_profile, name), keys))
    IN  [e |-> sim("emotion_scores", e_keys),
         n |-> sim("narrative_traits", n_keys),
         d |-> sim("ending_preference", ending_keys)]

\* raw_score at Scale
RawScore(in) ==
    LET sims == Sims(in.user_profile, in.movie_profile)
        w_e == IF "emotion" \in DOMAIN in.weights THEN in.weights.emotion ELSE 5
        w_n == IF "narrative" \in DOMAIN in.weights THEN in.weights.narrative ELSE 3
        w_d == IF "ending" \in DOMAIN in.weights THEN in.weights.ending ELSE 2
    IN  ( (w_e * sims.e + w_n * sims.n + w_d * sims.d)
            + in.boost_weight * _calculate_boost_score(in.movie_profile, in.boost_tags)
            - in.penalty_weight * _calculate_dislike_penalty(in.movie_profile, in.dislikes)
        ) \div WeightScale

\* 1 - min(sqrt(variance), 1.0) of the three similarities
Confidence(sims) ==
    LET sum == sims.e + sims.n + sims.d
        dev(x) == (3 * x - sum) * (3 * x - sum)
        variance == (dev(sims.e) + dev(sims.n) + dev(sims.d)) \div 27
    IN  Scale - Min(Isqrt(variance), Scale)

\* the variant without the clamp to [0, 1]
ProbabilityUnclipped(raw_score) == (raw_score + Scale) \div 2

\* probability = max(0.0, min(1.0, (raw_score + 1) / 2))
Probability(raw_score) == Max(0, Min(Scale, (raw_score + Scale) \div 2))

calculate_satisfaction_probability(in) ==
    LET sims == Sims(in.user_profile, in.movie_profile)
        raw_score == RawScore(in)
    IN  [done |-> TRUE,
         raised |-> FALSE,   \* no statement of the function raises on these inputs
         probability |-> Probability(raw_score),
         confidence |-> Confidence(sims),
         raw_score |-> raw_score,
         breakdown |->
             [emotion_similarity |-> sims.e,
              narrative_similarity |-> sims.n,
              ending_similarity |-> sims.d,
              boost_score |-> _calculate_boost_score(in.movie_profile, in.boost_tags),
              dislike_penalty |-> _calculate_dislike_penalty(in.movie_profile, in.dislikes),
              top_factors |-> _top_factors(sims.e, sims.n, sims.d)]]

UserProfiles ==
    {[emotion_scores |-> [sad |-> 100, calm |-> 0],
      narrative_traits |-> [twist |-> 100],
      ending_preference |-> [happy |-> 100, open |-> 0, bittersweet |-> 50]],
     [emotion_scores |-> [sad |-> 50, calm |-> 100]],
     [emotion_scores |-> [sad |-> 0, calm |-> 0],
      narrative_traits |-> [twist |-> 0],
      ending_preference |-> [happy |-> 0, open |-> 0, bittersweet |-> 0]]}

MovieProfiles ==
    {[emotion_scores |-> [sad |-> 100, calm |-> 50],
      narrative_traits |-> [twist |-> 50],
      direction_mood |-> [dark |-> 100],
      character_relationship |-> [family |-> 100, dark |-> 50],
      ending_preference |-> [happy |-> 100, open |-> 0, bittersweet |-> 0]],
     [emotion_scores |-> [sad |-> 0, calm |-> 100],
      narrative_traits |-> [twist |-> 0],
      direction_mood |-> [dark |-> 100],
      ending_preference |-> [happy |-> 0, open |-> 100, bittersweet |-> 0]],
     [emotion_scores |-> [calm |-> 100]],
     [emotion_scores |-> [sad |-> 0, calm |-> 0],
      narrative_traits |-> [twist |-> 0],
      ending_preference |-> [happy |-> 0, open |-> 0, bittersweet |-> 0]]}

TagPool == {"sad", "dark"}

MaxTags == 2

TagLists == SeqsUpTo(TagPool, MaxTags)

WeightSets ==
    {DefaultWeights, [emotion |-> 10, narrative |-> 0, ending |-> 0], [emotion |-> 5]}

TagWeights ==
    {[penalty_weight |-> PenaltyWeightDefault, boost_weight |-> BoostWeightDefault],
     [penalty_weight |-> 0, boost_weight |-> 20]}

ScoreInputs ==
    {[user_profile |-> u, movie_profile |-> m, dislikes |-> dl, boost_tags |-> bt,
      weights |-> w, penalty_weight |-> tw.penalty_weight,
      boost_weight |-> tw.boost_weight] :
        u \in UserProfiles, m \in MovieProfiles, dl \in TagLists, bt \in TagLists,
        w \in WeightSets, tw \in TagWeights}

ScoreInit ==
    /\ movies = <<>>
    /\ dbconn = "none"
    /\ RecIdle
    /\ SearchIdle
    /\ IndexIdle
    /\ scIn \in ScoreInputs
    /\ scOut = NotScored
    /\ GroupIdle
    /\ ExplainIdle
    /\ TaxonomyIdle
    /\ UpdaterIdle
    /\ ChatIdle
    /\ PreferenceIdle

Score ==
    /\ ~scOut.done
    /\ scOut' = calculate_satisfaction_probability(scIn)
    /\ UNCHANGED <<scIn, notScore>>

NextScore == Score

SpecScore == ScoreInit /\ [][NextScore]_vars

----------------------------------------------------------------------------
(* Claims about the scorer *)

\* C10: probability and confidence are within [0, 1].
C10_ProbabilityAndConfidenceBounded ==
    scOut.done =>
        /\ 0 <= scOut.probability /\ scOut.probability <= Scale
        /\ 0 <= scOut.confidence /\ scOut.confidence <= Scale

\* boost terms pushed raw_score above 1
C10_WitnessHigh ==
    /\ scOut.done
    /\ scOut.raw_score > Scale
    /\ scOut.breakdown.boost_score > 0

\* penalty terms pushed raw_score below -1
C10_WitnessLow ==
    /\ scOut.done
    /\ scOut.raw_score < 0 - Scale
    /\ scOut.breakdown.dislike_penalty > 0

----------------------------------------------------------------------------
(* Zero vectors and missing keys in the scorer *)

AllZero(d) == \A k \in DOMAIN d : d[k] = 0

NoDirection(name) ==
    \/ AllZero(Category(scIn.user_profile, name))
    \/ AllZero(Category(scIn.movie_profile, name))

\* C11: a dimension in which the user's or the candidate's scores are all
\* zero or absent has similarity 0, and the call returns a result with
\* probability and confidence instead of raising.
C11_ZeroVectorsScoreZero ==
    scOut.done =>
        /\ ~scOut.raised
        /\ NoDirection("emotion_scores") => scOut.breakdown.emotion_similarity = 0
        /\ NoDirection("narrative_traits") => scOut.breakdown.narrative_similarity = 0
        /\ NoDirection("ending_preference") => scOut.breakdown.ending_similarity = 0
        /\ scOut.probability \in 0..Scale
        /\ scOut.confidence \in 0..Scale

\* a user with preferences scored against a candidate whose scores are all 0
C11_Witness ==
    /\ scOut.done
    /\ ~AllZero(scIn.user_profile.emotion_scores)
    /\ "narrative_traits" \in DOMAIN scIn.user_profile
    /\ \A name \in {"emotion_scores", "narrative_traits", "ending_preference"} :
          /\ name \in DOMAIN scIn.movie_profile
          /\ AllZero(scIn.movie_profile[name])
    /\ scOut.breakdown.emotion_similarity = 0
    /\ scOut.breakdown.narrative_similarity = 0
    /\ scOut.breakdown.ending_similarity = 0

RequiredWeights == {"emotion", "narrative", "ending"}

ProfileKeys == {"emotion_scores", "narrative_traits", "ending_preference"}

\* C12: the call raises when weights omits a required dimension key, and
\* does not raise when only profile keys are missing.
C12_MissingWeightRaises ==
    scOut.done =>
        /\ ~(RequiredWeights \subseteq DOMAIN scIn.weights) => scOut.raised
        /\ ( /\ RequiredWeights \subseteq DOMAIN scIn.weights
             /\ ~(ProfileKeys \subseteq DOMAIN scIn.user_profile
                      /\ ProfileKeys \subseteq DOMAIN scIn.movie_profile) )
               => ~scOut.raised

----------------------------------------------------------------------------
(* Group aggregation: aggregate_group_score and domain/a6_group_simulation.py *)

\* Python floats are binary floating point numbers with a fixed number of
\* significant bits (53); the model keeps MantissaBits of them and the same
\* rounding (to nearest, ties to even).  A float is held as an integer count
\* of units, FloatOne units being 1.0; every float used here is at least
\* 2^(MantissaBits - 1) units, so it is a whole number of units.
MantissaBits == 5

FloatOne == 2 ^ (MantissaBits + 1)

\* the spacing of the floats around num / den
RECURSIVE UlpFrom(_, _, _)
UlpFrom(num, den, s) ==
    IF 2 * s * (2 ^ (MantissaBits - 1)) * den <= num
    THEN UlpFrom(num, den, 2 * s)
    ELSE s

\* the float nearest to num / den
Fl(num, den) ==
    LET s == UlpFrom(num, den, 1)
        q == num \div (den * s)
        rest == num - q * den * s
        up == \/ 2 * rest > den * s
              \/ (2 * rest = den * s /\ q % 2 = 1)
    IN  (IF up THEN q + 1 ELSE q) * s

\* sum(probs): additions from the left, each rounded; 0 + x is x
RECURSIVE FloatSumUpTo(_, _)
FloatSumUpTo(probs, n) ==
    IF n = 0 THEN 0
    ELSE IF n = 1 THEN probs[1]
    ELSE Fl(FloatSumUpTo(probs, n - 1) + probs[n], 1)

FloatSum(probs) == FloatSumUpTo(probs, Len(probs))

\* sum(probs) / len(probs)
FloatMean(probs) == Fl(FloatSum(probs), Len(probs))

RECURSIVE SortedUpTo(_, _)
SortedUpTo(probs, n) ==
    IF n = 0 THEN <<>>
    ELSE LET done == SortedUpTo(probs, n - 1)
             before == SelectSeq(done, LAMBDA x : x <= probs[n])
             after == SelectSeq(done, LAMBDA x : x > probs[n])
         IN  before \o <<probs[n]>> \o after

\* sorted(per_user_probs)
Sorted(probs) == SortedUpTo(probs, Len(probs))

\* strategy.lower().strip() on the names used here
Normalised(strategy) ==
    CASE strategy = " Mean " -> "mean"
      [] strategy = "MIN" -> "min"
      [] OTHER -> strategy

GroupScore(x) == [raised |-> FALSE, score |-> x]

UnknownStrategy == [raised |-> TRUE, score |-> 0]

\* the variant that works on the list in the order given
AggregateUnsorted(per_user_probs, strategy_name) ==
    LET strategy == Normalised(strategy_name)
        probs == per_user_probs
        n == Len(probs)
        mid == n \div 2
        trimmed == SubSeq(probs, 2, n - 1)
    IN  IF per_user_probs = <<>> THEN GroupScore(0)
        ELSE IF strategy \in {"mean", "avg", "average"} THEN GroupScore(FloatMean(probs))
        ELSE IF strategy \in {"least_misery", "min"} THEN GroupScore(probs[1])
        ELSE IF strategy = "median"
             THEN IF n % 2 = 1 THEN GroupScore(probs[mid + 1])
                  ELSE GroupScore(Fl(Fl(probs[mid] + probs[mid + 1], 1), 2))
        ELSE IF strategy = "trimmed_mean"
             THEN IF n <= 2 THEN GroupScore(FloatMean(probs))
                  ELSE GroupScore(FloatMean(trimmed))
        ELSE UnknownStrategy

aggregate_group_score(per_user_probs, strategy_name) ==
    LET strategy == Normalised(strategy_name)
        probs == Sorted(per_user_probs)
        n == Len(probs)
        mid == n \div 2
        trimmed == SubSeq(probs, 2, n - 1)
    IN  IF per_user_probs = <<>> THEN GroupScore(0)
        ELSE IF strategy \in {"mean", "avg", "average"} THEN GroupScore(FloatMean(probs))
        ELSE IF strategy \in {"least_misery", "min"} THEN GroupScore(probs[1])
        ELSE IF strategy = "median"
             THEN IF n % 2 = 1 THEN GroupScore(probs[mid + 1])
                  ELSE GroupScore(Fl(Fl(probs[mid] + probs[mid + 1], 1), 2))
        ELSE IF strategy = "trimmed_mean"
             THEN IF n <= 2 THEN GroupScore(FloatMean(probs))
                  ELSE GroupScore(FloatMean(trimmed))
        ELSE UnknownStrategy

RECURSIVE MinOfUpTo(_, _)
MinOfUpTo(xs, n) == IF n = 1 THEN xs[1] ELSE Min(MinOfUpTo(xs, n - 1), xs[n])

\* min(user_probs) of a non-empty list
MinOf(xs) == MinOfUpTo(xs, Len(xs))

RECURSIVE MaxOfUpTo(_, _)
MaxOfUpTo(xs, n) == IF n = 1 THEN xs[1] ELSE Max(MaxOfUpTo(xs, n - 1), xs[n])

MaxOf(xs) == MaxOfUpTo(xs, Len(xs))

RECURSIVE SumUpTo(_, _)
SumUpTo(xs, n) == IF n = 0 THEN 0 ELSE SumUpTo(xs, n - 1) + xs[n]

\* thresholds at Scale
_level_from_prob(prob) ==
    IF prob * 100 >= 85 * Scale THEN "very_satisfied"
    ELSE IF prob * 100 >= 70 * Scale THEN "satisfied"
    ELSE IF prob * 100 >= 50 * Scale THEN "neutral"
    ELSE IF prob * 100 >= 30 * Scale THEN "dissatisfied"
    ELSE "very_dissatisfied"

_group_comment(group_prob, min_prob, max_prob) ==
    LET variance == max_prob - min_prob
    IN  IF group_prob * 100 >= 70 * Scale
        THEN IF variance * 10 < 2 * Scale THEN "all_satisfied" ELSE "high_with_differences"
        ELSE IF group_prob * 100 >= 50 * Scale
        THEN IF variance * 10 < 3 * Scale THEN "acceptable" ELSE "divided"
        ELSE "low"

NoGroupResult(strategy) ==
    [raised |-> FALSE, group_score |-> 0, strategy |-> strategy, members |-> <<>>,
     comment |-> "no_group_input", recommendation |-> "add_members", scored |-> 0]

\* the variant that computes the group score inside the loop, before the
\* last member has been scored
GroupResultAggregatingEarly(payload) ==
    LET members == payload.members
        results ==
            [i \in DOMAIN members |->
                calculate_satisfaction_probability(
                    [user_profile |-> members[i].profile,
                     movie_profile |-> payload.movie_profile,
                     dislikes |-> members[i].dislikes,
                     boost_tags |-> members[i].likes,
                     weights |-> DefaultWeights,
                     penalty_weight |-> payload.penalty_weight,
                     boost_weight |-> payload.boost_weight])]
        user_probs == [i \in 1..Max(1, Len(members) - 1) |-> results[i].probability]
        \* group_score is rounded to 3 decimals on return: kept at Scale
        group_prob == IF payload.strategy = "least_misery"
                      THEN MinOf(user_probs)
                      ELSE SumUpTo(user_probs, Len(user_probs)) \div Len(user_probs)
    IN  [raised |-> FALSE,
         group_score |-> group_prob,
         strategy |-> payload.strategy,
         members |-> [i \in DOMAIN members |->
                        [user_id |-> members[i].user_id,
                         probability |-> results[i].probability,
                         confidence |-> results[i].confidence,
                         level |-> _level_from_prob(results[i].probability)]],
         comment |-> _group_comment(group_prob, MinOf(user_probs), MaxOf(user_probs)),
         recommendation |-> IF group_prob * 100 >= 70 * Scale THEN "recommended"
                            ELSE IF group_prob * 100 >= 50 * Scale THEN "consider_others"
                            ELSE "find_another",
         scored |-> Len(members)]

\* the field scored counts the calls of calculate_satisfaction_probability
GroupResult(payload) ==
    LET members == payload.members
        results ==
            [i \in DOMAIN members |->
                calculate_satisfaction_probability(
                    [user_profile |-> members[i].profile,
                     movie_profile |-> payload.movie_profile,
                     dislikes |-> members[i].dislikes,
                     boost_tags |-> members[i].likes,
                     weights |-> DefaultWeights,
                     penalty_weight |-> payload.penalty_weight,
                     boost_weight |-> payload.boost_weight])]
        user_probs == [i \in DOMAIN members |-> results[i].probability]
        \* group_score is rounded to 3 decimals on return: kept at Scale
        group_prob == IF payload.strategy = "least_misery"
                      THEN MinOf(user_probs)
                      ELSE SumUpTo(user_probs, Len(user_probs)) \div Len(user_probs)
    IN  [raised |-> FALSE,
         group_score |-> group_prob,
         strategy |-> payload.strategy,
         members |-> [i \in DOMAIN members |->
                        [user_id |-> members[i].user_id,
                         probability |-> results[i].probability,
                         confidence |-> results[i].confidence,
                         level |-> _level_from_prob(results[i].probability)]],
         comment |-> _group_comment(group_prob, MinOf(user_probs), MaxOf(user_probs)),
         recommendation |-> IF group_prob * 100 >= 70 * Scale THEN "recommended"
                            ELSE IF group_prob * 100 >= 50 * Scale THEN "consider_others"
                            ELSE "find_another",
         scored |-> Len(members)]

\* the variant without the test for an empty member list: min() of an empty
\* list raises
SimulateWithoutEmptyCheck(payload) ==
    IF payload.members = <<>>
    THEN [raised |-> TRUE, group_score |-> 0, strategy |-> payload.strategy,
          members |-> <<>>, comment |-> "", recommendation |-> "", scored |-> 0]
    ELSE GroupResult(payload)

simulate_group(payload) ==
    IF payload.members = <<>> THEN NoGroupResult(payload.strategy)
    ELSE GroupResult(payload)

MaxMembers == 3

\* floats between 0.5 and 0.75
ProbPool == {FloatOne \div 2 + 4 * i : i \in 0..8}

AggStrategies ==
    {"mean", " Mean ", "average", "least_misery", "MIN", "median", "trimmed_mean", "bogus"}

AggInputs ==
    [per_user_probs : SeqsUpTo(ProbPool, MaxMembers), strategy : AggStrategies]

MemberPool ==
    {[user_id |-> "u1", profile |-> [emotion_scores |-> [sad |-> 100, calm |-> 0]],
      dislikes |-> <<>>, likes |-> <<>>],
     [user_id |-> "u2", profile |-> [emotion_scores |-> [sad |-> 50, calm |-> 100]],
      dislikes |-> <<"dark">>, likes |-> <<>>],
     [user_id |-> "u3", profile |-> [emotion_scores |-> [sad |-> 0, calm |-> 100]],
      dislikes |-> <<>>, likes |-> <<"sad">>]}

SimStrategies == {"least_misery", "average", "median", "bogus"}

SimInputs ==
    [members : SeqsUpTo(MemberPool, MaxMembers),
     movie_profile : {[emotion_scores |-> [sad |-> 100, calm |-> 50],
                       direction_mood |-> [dark |-> 20]],
                      [emotion_scores |-> [sad |-> 0, calm |-> 100]]},
     penalty_weight : {PenaltyWeightDefault},
     boost_weight : {BoostWeightDefault},
     strategy : SimStrategies]

GroupInit ==
    /\ movies = <<>>
    /\ dbconn = "none"
    /\ RecIdle
    /\ SearchIdle
    /\ IndexIdle
    /\ ScoreIdle
    /\ ExplainIdle
    /\ TaxonomyIdle
    /\ UpdaterIdle
    /\ ChatIdle
    /\ PreferenceIdle
    /\ agOut = None
    /\ sgOut = None
    /\ \/ agIn \in AggInputs /\ sgIn = None
       \/ agIn = None /\ sgIn \in SimInputs

Aggregate ==
    /\ agIn # None
    /\ agOut = None
    /\ agOut' = aggregate_group_score(agIn.per_user_probs, agIn.strategy)
    /\ UNCHANGED <<agIn, sgIn, sgOut, notGroup>>

SimulateGroup ==
    /\ sgIn # None
    /\ sgOut = None
    /\ sgOut' = simulate_group(sgIn)
    /\ UNCHANGED <<sgIn, agIn, agOut, notGroup>>

NextGroup == Aggregate \/ SimulateGroup

SpecGroup == GroupInit /\ [][NextGroup]_vars

----------------------------------------------------------------------------
(* Claims about group aggregation *)

AggReturned == agOut # None /\ agIn.per_user_probs # <<>> /\ ~agOut.raised

SimReturned == sgOut # None /\ sgIn.members # <<>> /\ ~sgOut.raised

MemberProbs == [i \in DOMAIN sgOut.members |-> sgOut.members[i].probability]

\* C13: for a non-empty list the least_misery score is at most the mean
\* score, the mean score is at most the largest member probability, and the
\* score of every supported strategy is between the smallest and the largest
\* member probability.
C13_AggregationBounds ==
    /\ AggReturned =>
          LET probs == agIn.per_user_probs
          IN  /\ MinOf(probs) <= agOut.score
              /\ agOut.score <= MaxOf(probs)
              /\ aggregate_group_score(probs, "least_misery").score
                    <= aggregate_group_score(probs, "mean").score
              /\ aggregate_group_score(probs, "mean").score <= MaxOf(probs)
    /\ SimReturned =>
          /\ MinOf(MemberProbs) <= sgOut.group_score
          /\ sgOut.group_score <= MaxOf(MemberProbs)

SupportedByAggregate ==
    {"mean", "avg", "average", "least_misery", "min", "median", "trimmed_mean"}

SupportedBySimulate == {"least_misery", "average"}

\* C14: with a non-empty member list a strategy name that is not supported
\* makes the call fail; no score is computed under another strategy.
C14_UnknownStrategyFails ==
    /\ ( /\ agOut # None
         /\ agIn.per_user_probs # <<>>
         /\ Normalised(agIn.strategy) \notin SupportedByAggregate ) => agOut.raised
    /\ ( /\ sgOut # None
         /\ sgIn.members # <<>>
         /\ sgIn.strategy \notin SupportedBySimulate ) => sgOut.raised

\* C15: an empty member list gives the no-group-score result: score 0, no
\* members, the comment, nothing raised and nothing scored.
C15_EmptyGroup ==
    /\ (agOut # None /\ agIn.per_user_probs = <<>>) =>
          (~agOut.raised /\ agOut.score = 0)
    /\ (sgOut # None /\ sgIn.members = <<>>) =>
          /\ ~sgOut.raised
          /\ sgOut.group_score = 0
          /\ sgOut.members = <<>>
          /\ sgOut.comment = "no_group_input"
          /\ sgOut.scored = 0

\* simulate_group has answered a payload without members
C15_Witness ==
    /\ sgOut # None
    /\ sgIn.members = <<>>
    /\ sgOut.group_score = 0
    /\ sgOut.comment = "no_group_input"

----------------------------------------------------------------------------
(* Explanation synthesis: ml/model_sample/analysis/description.py *)

\* A text is its sentences in order (what re.split on sentence ends gives),
\* each sentence the phrases it holds, and closed tells whether the text ends
\* with ".", "!" or "?".  Phrases are atoms: a hint is in a text when one of
\* its sentences holds it.
Text(sentences, closed) == [sentences |-> sentences, closed |-> closed]

EmptyText == Text(<<>>, FALSE)

Factors == {"emotion", "narrative", "ending"}

\* the keywords of a factor that occur in a tag
KeywordsIn(tag) ==
    CASE tag = "moving" -> {"moving"}
      [] tag = "twist" -> {"twist"}
      [] tag = "moving_twist" -> {"moving", "twist"}
      [] tag = "scary" -> {"scary"}
      [] OTHER -> {}

FactorKeywords(factor) ==
    CASE factor = "emotion" -> {"moving", "scary"}
      [] factor = "narrative" -> {"twist"}
      [] factor = "ending" -> {"happy"}
      [] OTHER -> {}

\* the first tag of the pool that holds a keyword of the factor, or ""
_pick_tag_for_factor(factor, tag_pool) ==
    LET hits == SelectSeq(tag_pool, LAMBDA t : KeywordsIn(t) \cap FactorKeywords(factor) # {})
    IN  IF hits = <<>> THEN "" ELSE hits[1]

\* the mapping is searched in its order: "moving" before "twist"
_naturalize_tag(tag, factor) ==
    IF tag = ""
    THEN CASE factor = "emotion" -> "clear_emotional_tone"
           [] factor = "narrative" -> "clear_story_flow"
           [] factor = "ending" -> "lingering_ending"
           [] OTHER -> "taste_point"
    ELSE IF "moving" \in KeywordsIn(tag) THEN "moving_mood"
    ELSE IF "twist" \in KeywordsIn(tag) THEN "twisting_plot"
    ELSE IF "happy" \in KeywordsIn(tag) THEN "happy_ending"
    ELSE "point_of_scary"

\* factor_hints as the list of (factor, hint) in insertion order
_build_factor_hints(top_factors, user_liked_tags, user_disliked_tags) ==
    LET tag_pool == user_liked_tags \o user_disliked_tags
        first2 == Take(top_factors, 2)
    IN  [i \in DOMAIN first2 |->
            [factor |-> first2[i],
             hint |-> _naturalize_tag(_pick_tag_for_factor(first2[i], tag_pool),
                                      first2[i])]]

\* drops the first sentence when there are two or more
_remove_first_sentence(text) ==
    IF Len(text.sentences) <= 1 THEN text
    ELSE Text(Tail(text.sentences), text.closed)

Phrases(text) == UNION {Range(text.sentences[i]) : i \in DOMAIN text.sentences}

\* the variant that returns the generator's text as it is
EnforceNothing(explanation, factor_hints) == explanation

_enforce_factor_hint_coverage(explanation, factor_hints) ==
    LET hints == [i \in DOMAIN factor_hints |-> factor_hints[i].hint]
        missing_hints == SelectSeq(hints, LAMBDA h : h \notin Phrases(explanation))
        needs_append == missing_hints # <<>> \/ "vague" \in Phrases(explanation)
        supplement == IF missing_hints # <<>> THEN missing_hints ELSE Take(hints, 2)
    IN  IF factor_hints = <<>> THEN explanation
        ELSE IF ~needs_append THEN explanation
        ELSE Text(explanation.sentences \o <<supplement>>, TRUE)

Explained(kind, text) == [raised |-> FALSE, kind |-> kind, text |-> text]

\* the template: one sentence naming the phrase of each top factor (the two
\* default factors when the breakdown has none), one sentence of disclaimer
_generate_fallback_explanation(in) ==
    LET given == Take(in.top_factors, 2)
        top_factors == IF given = <<>> THEN <<"emotion", "narrative">> ELSE given
        tag_pool == in.user_liked_tags \o in.user_disliked_tags
        phrase(f) == LET t == _pick_tag_for_factor(f, tag_pool)
                     IN  IF t = "" THEN "template_" \o f ELSE "template_" \o t
    IN  Explained("fallback",
                  Text(<< [i \in DOMAIN top_factors |-> phrase(top_factors[i])],
                          <<"disclaimer">> >>, TRUE))

\* in.client: "given" or "unavailable" (get_bedrock_client returned None);
\* in.gen: what invoke_model does: "raises", "malformed" (body is not JSON),
\* "no_content" (no or empty 'content') or "text" with the text
generate_explanation(in) ==
    LET factor_hints == _build_factor_hints(in.top_factors, in.user_liked_tags,
                                            in.user_disliked_tags)
    IN  IF in.client = "unavailable" THEN _generate_fallback_explanation(in)
        ELSE IF in.gen.kind \in {"raises", "malformed", "no_content"}
             THEN _generate_fallback_explanation(in)
        ELSE Explained("generated",
                 _enforce_factor_hint_coverage(_remove_first_sentence(in.gen.text),
                                               factor_hints))

MaxSentences == 2

PhrasePool ==
    {"clear_emotional_tone", "clear_story_flow", "lingering_ending", "moving_mood",
     "twisting_plot", "point_of_scary", "vague", "word"}

\* texts of up to MaxSentences sentences of one phrase each
GeneratedTexts ==
    {EmptyText} \cup
    {Text([i \in DOMAIN ps |-> <<ps[i]>>], c) :
        ps \in SeqsUpTo(PhrasePool, MaxSentences) \ {<<>>}, c \in BOOLEAN}

GeneratorOutcomes ==
    {[kind |-> k, text |-> EmptyText] : k \in {"raises", "malformed", "no_content"}}
        \cup {[kind |-> "text", text |-> t] : t \in GeneratedTexts}

ExplainInputs ==
    [top_factors : {<<"emotion", "narrative">>, <<"narrative", "ending">>,
                    <<"ending", "emotion">>, <<>>},
     user_liked_tags : {<<>>, <<"moving">>, <<"moving_twist">>, <<"scary", "twist">>},
     user_disliked_tags : {<<>>},
     client : {"given"},
     gen : GeneratorOutcomes]
    \cup
    [top_factors : {<<"emotion", "narrative">>, <<>>},
     user_liked_tags : {<<>>, <<"moving">>},
     user_disliked_tags : {<<>>},
     client : {"unavailable"},
     gen : {[kind |-> "raises", text |-> EmptyText]}]

ExplainInit ==
    /\ movies = <<>>
    /\ dbconn = "none"
    /\ RecIdle
    /\ SearchIdle
    /\ IndexIdle
    /\ ScoreIdle
    /\ GroupIdle
    /\ TaxonomyIdle
    /\ UpdaterIdle
    /\ ChatIdle
    /\ PreferenceIdle
    /\ exIn \in ExplainInputs
    /\ exOut = None

Explain ==
    /\ exOut = None
    /\ exOut' = generate_explanation(exIn)
    /\ UNCHANGED <<exIn, notExplain>>

NextExplain == Explain

SpecExplain == ExplainInit /\ [][NextExplain]_vars

----------------------------------------------------------------------------
(* Claims about explanation synthesis *)

FactorHints ==
    _build_factor_hints(exIn.top_factors, exIn.user_liked_tags, exIn.user_disliked_tags)

GeneratorPath == exIn.client = "given" /\ exIn.gen.kind = "text"

\* C16: on the generator path the returned explanation holds the hint of
\* each of the two top factors, whatever text the generator returned.
C16_TopFactorsCovered ==
    (exOut # None /\ GeneratorPath /\ Len(exIn.top_factors) = 2) =>
        /\ exOut.kind = "generated"
        /\ \A i \in DOMAIN FactorHints : FactorHints[i].hint \in Phrases(exOut.text)

\* the generator's text mentions neither hint, and both are in the result
C16_Witness ==
    /\ exOut # None
    /\ GeneratorPath
    /\ exIn.gen.text # EmptyText
    /\ Len(FactorHints) = 2
    /\ FactorHints[1].hint # FactorHints[2].hint
    /\ \A i \in DOMAIN FactorHints : FactorHints[i].hint \notin Phrases(exIn.gen.text)
    /\ \A i \in DOMAIN FactorHints : FactorHints[i].hint \in Phrases(exOut.text)

GeneratorFailed ==
    \/ exIn.client = "unavailable"
    \/ exIn.gen.kind \in {"raises", "malformed", "no_content"}
    \/ (exIn.gen.kind = "text" /\ exIn.gen.text = EmptyText)

\* C17: for every kind of generator failure the result is exactly the
\* templated fallback explanation and nothing is raised.
C17_FailureGivesFallback ==
    (exOut # None /\ GeneratorFailed) =>
        /\ ~exOut.raised
        /\ exOut = _generate_fallback_explanation(exIn)

----------------------------------------------------------------------------
(* Taxonomy: domain/taxonomy.py and its consumers *)

TaxonomyCategories == {"emotion", "story_flow", "direction_mood", "character_relationship"}

\* every category with its description and its tags
_default_taxonomy ==
    [c \in TaxonomyCategories |-> [description |-> "text", tags |-> <<"tag1", "tag2">>]]

FileCategories == {"emotion", "story_flow", "direction_mood"}

EntryOf(choice) ==
    CASE choice = "no_tags" -> [description |-> "text"]
      [] choice = "empty" -> [description |-> "text", tags |-> <<>>]
      [] OTHER -> [description |-> "text", tags |-> <<"tag1">>]

\* the JSON objects a taxonomy file may hold: each category is left out,
\* has no "tags" key, has an empty tag list or has one tag
FileContents ==
    {[c \in {c \in FileCategories : f[c] # "absent"} |-> EntryOf(f[c])] :
        f \in [FileCategories -> {"absent", "no_tags", "empty", "one"}]}

\* ml/data/emotion_tag.json: not there, not JSON, or JSON
TaxonomyFiles ==
    {[state |-> "missing", content |-> <<>>], [state |-> "malformed", content |-> <<>>]}
        \cup {[state |-> "valid", content |-> t] : t \in FileContents}

load_taxonomy(file) ==
    IF file.state = "valid" THEN [raised |-> FALSE, taxonomy |-> file.content]
    ELSE [raised |-> FALSE, taxonomy |-> _default_taxonomy]

TagsRead(tags) == [raised |-> FALSE, tags |-> tags]

KeyError == [raised |-> TRUE, tags |-> <<>>]

\* taxonomy.get(category, {}).get("tags", [])
TagsByGet(taxonomy, category) ==
    IF category \in DOMAIN taxonomy /\ "tags" \in DOMAIN taxonomy[category]
    THEN TagsRead(taxonomy[category].tags)
    ELSE TagsRead(<<>>)

\* taxonomy[category]["tags"]
TagsByIndex(taxonomy, category) ==
    IF category \in DOMAIN taxonomy /\ "tags" \in DOMAIN taxonomy[category]
    THEN TagsRead(taxonomy[category].tags)
    ELSE KeyError

\* the lookups of the consumers: predict_preference, process_movie_vector,
\* build_taste_map and MovieRetriever use .get; load_or_build_db indexes
ConsumerLookups ==
    {[consumer |-> "a1_preference", category |-> c] : c \in TaxonomyCategories}
        \cup {[consumer |-> "movie_retriever", category |-> "emotion"]}
        \cup {[consumer |-> "load_or_build_db", category |-> c] :
                c \in {"emotion", "story_flow"}}

Lookup(taxonomy, l) ==
    IF l.consumer = "load_or_build_db"
    THEN TagsByIndex(taxonomy, l.category)
    ELSE TagsByGet(taxonomy, l.category)

NotLoaded == [loaded |-> FALSE]

TaxonomyInit ==
    /\ movies = <<>>
    /\ dbconn = "none"
    /\ RecIdle
    /\ SearchIdle
    /\ IndexIdle
    /\ ScoreIdle
    /\ GroupIdle
    /\ ExplainIdle
    /\ UpdaterIdle
    /\ ChatIdle
    /\ PreferenceIdle
    /\ txIn \in TaxonomyFiles
    /\ txOut = NotLoaded

LoadTaxonomy ==
    /\ ~txOut.loaded
    /\ txOut' = [loaded |-> TRUE, load |-> load_taxonomy(txIn), looked |-> FALSE]
    /\ UNCHANGED <<txIn, notTaxonomy>>

ConsumerLookup ==
    /\ txOut.loaded
    /\ ~txOut.load.raised
    /\ ~txOut.looked
    /\ \E l \in ConsumerLookups :
          txOut' = [loaded |-> TRUE, load |-> txOut.load, looked |-> TRUE,
                    lookup |-> l, read |-> Lookup(txOut.load.taxonomy, l)]
    /\ UNCHANGED <<txIn, notTaxonomy>>

NextTaxonomy == LoadTaxonomy \/ ConsumerLookup

SpecTaxonomy == TaxonomyInit /\ [][NextTaxonomy]_vars

----------------------------------------------------------------------------
(* Claims about the taxonomy *)

\* C18: loading never fails, a missing or malformed file gives the built-in
\* default taxonomy, and every later lookup of a category's tags gives a tag
\* list and no error.
C18_TaxonomyNeverFails ==
    txOut.loaded =>
        /\ ~txOut.load.raised
        /\ txIn.state \in {"missing", "malformed"} =>
              txOut.load.taxonomy = _default_taxonomy
        /\ txOut.looked => ~txOut.read.raised

----------------------------------------------------------------------------
(* Preference updates from reviews: services/preference_updater.py *)

\* Ratings, weights and learning rates are kept at Scale: rating 4.0 is
\* 4 * Scale, learning_rate 0.15 is 15.

\* (rating - 3.0) / 2.0
_calculate_rating_weight(rating) == (rating - 3 * Scale) \div 2

Clamp01(x) == Max(0, Min(Scale, x))

_update_vector(current, target, weight, learning_rate) ==
    [key \in DOMAIN current \cup DOMAIN target |->
        LET current_val == Get(current, key)
            target_val == Get(target, key)
            delta == IF weight > 0
                     THEN (learning_rate * weight * (target_val - current_val))
                              \div (Scale * Scale)
                     ELSE (learning_rate * weight * target_val) \div (Scale * Scale)
        IN  Clamp01(current_val + delta)]

\* the order in which the keys of the score dicts are met
TagOrder == <<"sad", "calm", "twist", "dark", "family">>

\* all_scores after the first n categories: a later category overwrites the
\* score of a tag and keeps its place
RECURSIVE AllScoresUpTo(_, _)
AllScoresUpTo(movie_vector, n) ==
    IF n = 0 THEN <<>>
    ELSE LET before == AllScoresUpTo(movie_vector, n - 1)
             scores == movie_vector[TagCategories[n]]
             kept == [i \in DOMAIN before |->
                        IF before[i].tag \in DOMAIN scores
                        THEN [tag |-> before[i].tag,
                              similarity_score |-> <<scores[before[i].tag], 1>>]
                        ELSE before[i]]
             seen == {before[i].tag : i \in DOMAIN before}
             fresh == SelectSeq(TagOrder, LAMBDA t : t \in DOMAIN scores /\ t \notin seen)
         IN  kept \o [i \in DOMAIN fresh |->
                        [tag |-> fresh[i], similarity_score |-> <<scores[fresh[i]], 1>>]]

\* the limit highest tags, those among them scoring above 0.3
_get_top_tags(movie_vector, limit) ==
    LET sorted_tags == SortDesc(AllScoresUpTo(movie_vector, Len(TagCategories)))
        top == SelectSeq(Take(sorted_tags, limit),
                         LAMBDA x : x.similarity_score[1] * 10 > 3 * Scale)
    IN  [i \in DOMAIN top |-> top[i].tag]

\* s[-n:]
Last(s, n) == IF Len(s) <= n THEN s ELSE SubSeq(s, Len(s) - n + 1, Len(s))

\* the variant that looks for the tag in its own list only
RECURSIVE AppendIgnoringOther(_, _, _, _)
AppendIgnoringOther(tags, other, top_tags, n) ==
    IF n = 0 THEN tags
    ELSE LET before == AppendIgnoringOther(tags, other, top_tags, n - 1)
         IN  IF top_tags[n] \notin Range(before)
             THEN Append(before, top_tags[n])
             ELSE before

RECURSIVE AppendNewUpTo(_, _, _, _)
AppendNewUpTo(tags, other, top_tags, n) ==
    IF n = 0 THEN tags
    ELSE LET before == AppendNewUpTo(tags, other, top_tags, n - 1)
         IN  IF top_tags[n] \notin Range(before) /\ top_tags[n] \notin Range(other)
             THEN Append(before, top_tags[n])
             ELSE before

\* boost_tags[-20:]
MaxBoostTags == 20

\* dislike_tags[-15:]
MaxDislikeTags == 15

\* the row that user_pref_repo.upsert writes; review_vector is None when
\* there is no analysed review text
_update_user_preference(user_pref, movie_vector, review_vector, rating, rating_weight, learning_rate, now) ==
    LET current_pref == user_pref.preference_vector_json
        source_vector == IF review_vector # None THEN review_vector ELSE movie_vector
        slow == (learning_rate * 7) \div 10
        upd(category, target, lr) ==
            _update_vector(Category(current_pref, category), target, rating_weight, lr)
        updated_pref ==
            [emotion_scores |->
                upd("emotion_scores", Category(source_vector, "emotion_scores"), learning_rate),
             narrative_traits |->
                upd("narrative_traits", Category(source_vector, "narrative_traits"), learning_rate),
             direction_mood |-> upd("direction_mood", movie_vector.direction_mood, slow),
             character_relationship |->
                upd("character_relationship", movie_vector.character_relationship, slow),
             ending_preference |->
                upd("ending_preference", Category(source_vector, "ending_preference"),
                    learning_rate)]
        boost_tags ==
            IF rating >= 4 * Scale
            THEN Last(AppendNewUpTo(user_pref.boost_tags, user_pref.dislike_tags,
                                    _get_top_tags(movie_vector, 3),
                                    Len(_get_top_tags(movie_vector, 3))), MaxBoostTags)
            ELSE user_pref.boost_tags
        dislike_tags ==
            IF rating < 4 * Scale /\ rating <= 2 * Scale
            THEN Last(AppendNewUpTo(user_pref.dislike_tags, user_pref.boost_tags,
                                    _get_top_tags(movie_vector, 2),
                                    Len(_get_top_tags(movie_vector, 2))), MaxDislikeTags)
            ELSE user_pref.dislike_tags
    IN  [preference_vector_json |-> updated_pref,
         persona_code |-> user_pref.persona_code,
         boost_tags |-> boost_tags,
         dislike_tags |-> dislike_tags,
         penalty_tags |-> IF user_pref.penalty_tags # <<>> THEN user_pref.penalty_tags
                          ELSE <<>>,
         updated_at |-> now]

\* the row that movie_vector_repo.upsert writes
_update_movie_vector(movie_vector, review_vector, rating, learning_rate) ==
    LET weight == IF rating >= 4 * Scale THEN Scale
                  ELSE IF rating <= 2 * Scale THEN (3 * Scale) \div 10
                  ELSE (6 * Scale) \div 10
    IN  [emotion_scores |->
            _update_vector(movie_vector.emotion_scores,
                           Category(review_vector, "emotion_scores"), weight, learning_rate),
         narrative_traits |->
            _update_vector(movie_vector.narrative_traits,
                           Category(review_vector, "narrative_traits"), weight, learning_rate),
         direction_mood |-> movie_vector.direction_mood,
         character_relationship |-> movie_vector.character_relationship,
         ending_preference |->
            _update_vector(movie_vector.ending_preference,
                           Category(review_vector, "ending_preference"), weight, learning_rate)]

Failure(message) == [success |-> FALSE, message |-> message]

\* the review learning rate of movie vectors, 0.05
MovieLearningRate == (5 * Scale) \div 100

UpdateApplied(in, st) ==
    LET user_pref == st.user_preferences[in.user_id]
        movie_vector == st.movie_vectors[in.movie_id]
        rating_weight == _calculate_rating_weight(in.rating)
        now == st.clock + 1
        new_pref == _update_user_preference(user_pref, movie_vector, in.review_vector,
                                            in.rating, rating_weight, in.learning_rate, now)
        movie_updated == in.review_vector # None
        new_vector == IF movie_updated
                      THEN _update_movie_vector(movie_vector, in.review_vector, in.rating,
                                                MovieLearningRate)
                      ELSE movie_vector
    IN  [result |->
            [success |-> TRUE,
             message |-> "updated",
             user_id |-> in.user_id,
             movie_id |-> in.movie_id,
             rating |-> in.rating,
             rating_weight |-> rating_weight,
             review_analyzed |-> in.review_vector # None,
             movie_vector_updated |-> movie_updated,
             updated_at |-> now],
         store |->
            [user_preferences |-> [st.user_preferences EXCEPT ![in.user_id] = new_pref],
             movie_vectors |-> [st.movie_vectors EXCEPT ![in.movie_id] = new_vector],
             clock |-> now]]

\* the variant that looks for the movie vector only after the preference
\* has been written
UpdateBeforeMovieCheck(in, st) ==
    IF in.user_id \notin DOMAIN st.user_preferences
    THEN [result |-> Failure("user_preference_not_found"), store |-> st]
    ELSE IF in.movie_id \notin DOMAIN st.movie_vectors
    THEN [result |-> Failure("movie_vector_not_found"),
          store |-> [st EXCEPT !.user_preferences[in.user_id].updated_at = st.clock + 1,
                               !.clock = st.clock + 1]]
    ELSE UpdateApplied(in, st)

\* in.review_vector is what _analyze_review_text gave, None without review
\* text, without taxonomy or when the analysis raised
update_from_review(in, st) ==
    IF in.user_id \notin DOMAIN st.user_preferences
    THEN [result |-> Failure("user_preference_not_found"), store |-> st]
    ELSE IF in.movie_id \notin DOMAIN st.movie_vectors
    THEN [result |-> Failure("movie_vector_not_found"), store |-> st]
    ELSE UpdateApplied(in, st)

\* POST /{user_id}/update-from-review: no review text is passed on
update_preference_from_review(in, st) ==
    LET done == update_from_review([in EXCEPT !.review_vector = None], st)
    IN  IF ~done.result.success
        THEN [status |-> 400, detail |-> done.result.message, store |-> done.store]
        ELSE [status |-> 200, body |-> done.result, store |-> done.store]

MaxUpdates == 2

Users == {"u1", "u2"}

MovieIds == {1, 2}

StoredPreference ==
    [preference_vector_json |->
        [emotion_scores |-> [sad |-> 80, calm |-> 20],
         narrative_traits |-> [twist |-> 50],
         ending_preference |-> [happy |-> 100, open |-> 0, bittersweet |-> 0]],
     persona_code |-> "P1",
     boost_tags |-> <<"calm">>,
     dislike_tags |-> <<>>,
     penalty_tags |-> <<"family">>,
     updated_at |-> 0]

\* n tags that no movie vector scores
Tags(prefix, n) == [i \in 1..n |-> prefix \o ToString(i)]

\* a preference saved with tag lists close to the lengths the updater cuts at
NearCaps ==
    [StoredPreference EXCEPT !.boost_tags = Tags("b", MaxBoostTags - 1),
                             !.dislike_tags = Tags("d", MaxDislikeTags - 1)]

\* a preference saved through POST /api/user-preferences with more boost tags
\* than the updater keeps
OverCap == [StoredPreference EXCEPT !.boost_tags = Tags("b", MaxBoostTags + 1)]

\* a preference saved with a repeated boost tag
Doubled == [StoredPreference EXCEPT !.boost_tags = <<"calm", "calm">>]

StoredPreferences == {StoredPreference, NearCaps, OverCap, Doubled}

StoredVector ==
    [emotion_scores |-> [sad |-> 90, calm |-> 10],
     narrative_traits |-> [twist |-> 40],
     direction_mood |-> [dark |-> 70],
     character_relationship |-> [family |-> 20, dark |-> 35],
     ending_preference |-> [happy |-> 0, open |-> 100, bittersweet |-> 0]]

ReviewVectors ==
    {None,
     [emotion_scores |-> [sad |-> 100, calm |-> 0],
      narrative_traits |-> [twist |-> 100],
      ending_preference |-> [happy |-> 0, open |-> 0, bittersweet |-> 100]]}

Stores ==
    {[user_preferences |-> [u \in us |-> p],
      movie_vectors |-> [m \in ms |-> StoredVector],
      clock |-> 0] : us \in {{"u1"}, {}}, ms \in {{1}, {}}, p \in StoredPreferences}

UpdateInputs ==
    [user_id : Users, movie_id : MovieIds,
     rating : {Scale \div 2, 2 * Scale, 3 * Scale, 4 * Scale, 5 * Scale},
     review_vector : ReviewVectors, learning_rate : {15}]

NoUpdate == [n |-> 0]

UpdaterInit ==
    /\ movies = <<>>
    /\ dbconn = "none"
    /\ RecIdle
    /\ SearchIdle
    /\ IndexIdle
    /\ ScoreIdle
    /\ GroupIdle
    /\ ExplainIdle
    /\ TaxonomyIdle
    /\ ChatIdle
    /\ PreferenceIdle
    /\ store \in Stores
    /\ upIn = None
    /\ upOut = NoUpdate

\* PreferenceUpdater(db).update_from_review(...) called by a service
UpdateFromReview ==
    /\ upOut.n < MaxUpdates
    /\ \E in \in UpdateInputs :
          LET done == update_from_review(in, store)
          IN  /\ upIn' = in
              /\ store' = done.store
              /\ upOut' = [n |-> upOut.n + 1, via |-> "service", result |-> done.result]
    /\ UNCHANGED notUpdater

\* the HTTP route
ApiUpdateFromReview ==
    /\ upOut.n < MaxUpdates
    /\ \E in \in UpdateInputs :
          LET done == update_preference_from_review(in, store)
          IN  /\ in.review_vector = None
              /\ upIn' = in
              /\ store' = done.store
              /\ upOut' = [n |-> upOut.n + 1, via |-> "api",
                           result |-> [x \in DOMAIN done \ {"store"} |-> done[x]]]
    /\ UNCHANGED notUpdater

NextUpdater == UpdateFromReview \/ ApiUpdateFromReview

SpecUpdater == UpdaterInit /\ [][NextUpdater]_vars

----------------------------------------------------------------------------
(* Claims about preference updates *)

NotFound(in, st) ==
    in.user_id \notin DOMAIN st.user_preferences \/ in.movie_id \notin DOMAIN st.movie_vectors

NotFoundMessages == {"user_preference_not_found", "movie_vector_not_found"}

\* C19: a call for a user without saved preference or a movie without stored
\* vector reports failure with a not-found message (status 400 at the
\* route) and leaves the stored preferences and vectors as they were.
C19_NotFoundLeavesStore ==
    [][ (upOut'.n # upOut.n /\ NotFound(upIn', store)) =>
            /\ store' = store
            /\ upOut'.via = "service" =>
                  (~upOut'.result.success /\ upOut'.result.message \in NotFoundMessages)
            /\ upOut'.via = "api" =>
                  (upOut'.result.status = 400 /\ upOut'.result.detail \in NotFoundMessages)
      ]_vars

\* the route answered 400 for a known user and a movie without vector
C19_Witness ==
    /\ upOut.n > 0
    /\ upOut.via = "api"
    /\ upIn.user_id \in DOMAIN store.user_preferences
    /\ upIn.movie_id \notin DOMAIN store.movie_vectors
    /\ upOut.result.status = 400
    /\ upOut.result.detail = "movie_vector_not_found"

----------------------------------------------------------------------------
(* Order of the steps of one recommend request *)

ListedIds(r) == [i \in DOMAIN prompt[r] |-> prompt[r][i].movie_id]

StepOrder ==
    {<<"idle", "generate">>, <<"idle", "done">>, <<"generate", "validate">>,
     <<"generate", "done">>, <<"validate", "done">>}

\* C20: the steps of a request follow RETRIEVE, FORMAT and GENERATE,
\* VALIDATE; the generator is called at most once and only when retrieval is
\* complete, and its listing holds exactly the IDs of the retrieved
\* candidates, which are the allowlist of the validation.
C20_StepOrder ==
    /\ [](\A r \in Reqs :
            /\ genCalls[r] <= 1
            /\ pc[r] = "validate" => genCalls[r] = 1
            /\ genCalls[r] = 1 =>
                  /\ pc[r] \in {"validate", "done"}
                  /\ candidates[r] = Retrieved(req[r])
                  /\ candidates[r] # <<>>
                  /\ ListedIds(r) = CandidateIds(candidates[r]))
    /\ [][\A r \in Reqs :
            /\ pc'[r] # pc[r] => <<pc[r], pc'[r]>> \in StepOrder
            /\ genCalls'[r] # genCalls[r] => (pc[r] = "generate" /\ genCalls[r] = 0)
            /\ pc[r] # "idle" => candidates'[r] = candidates[r]
         ]_vars

\* a request answered after one generator call that listed several candidates
C20_Witness ==
    /\ Answered(1)
    /\ genCalls[1] = 1
    /\ Len(candidates[1]) >= 2
    /\ ListedIds(1) = CandidateIds(candidates[1])

----------------------------------------------------------------------------
(* Claims about the order of the extraction strategies and the shape of the
   recommendations list *)

\* the request went through the parsing of a generator response
Validated(r) == Finished(r) /\ genCalls[r] > 0 /\ ~result[r].failed

\* json.loads accepts the fragment re.search found
FragmentParses(text) ==
    JsonMatch(text) # None /\ JsonMatch(text).t \in {"json", "scalar"}

\* the members of ids that are in the listing, in the order of ids
InListing(ids, r) == SelectSeq(ids, LAMBDA mid : mid \in Range(ListedIds(r)))

RecsFrom(ids, r) == SelectedMovies(ids, candidates[r], req[r].top_k)

\* C21: the strategies are tried in strict order.  A structured fragment that
\* is found and parses decides the outcome whatever tags the text holds (its
\* list filtered by the listing, or the TypeError of a non-list value); the
\* [ID: n] tags are read only when no fragment parses, and their IDs are
\* restricted to the issued listing; the top-N candidates are returned only
\* when there is no tag either.
C21_StrategyOrder ==
    \A r \in Reqs :
        Validated(r) =>
            LET text == result[r].response
                m == JsonMatch(text)
                tags == TagMatches(text)
            IN  /\ (FragmentParses(text) /\ m.t = "json") =>
                      /\ Answered(r)
                      /\ Recs(r) = RecsFrom(InListing(m.ids, r), r)
                /\ (FragmentParses(text) /\ m.t = "scalar") => resp[r] = Raised
                /\ (~FragmentParses(text) /\ tags # <<>>) =>
                      /\ Answered(r)
                      /\ Recs(r) = RecsFrom(InListing(tags, r), r)
                      /\ \A i \in DOMAIN Recs(r) :
                            /\ Recs(r)[i].movie_id \in Range(ListedIds(r))
                            /\ Recs(r)[i].movie_id \in Range(tags)
                /\ (~FragmentParses(text) /\ tags = <<>>) =>
                      /\ Answered(r)
                      /\ Recs(r) = RecsFrom(Take(CandidateIds(candidates[r]), FallbackN), r)

\* a parsed fragment and a tag naming different candidates in one response:
\* the fragment decides
C21_Witness ==
    /\ Validated(1)
    /\ Answered(1)
    /\ result[1].response = <<Tok("tag", <<11>>), Tok("json", <<12, 11>>)>>
    /\ Recs(1) # <<>>
    /\ Recs(1)[1].movie_id = 12

\* no selection can be read from the response: the fallback outcome
FallbackOutcome(r) ==
    /\ Validated(r)
    /\ Answered(r)
    /\ ~FragmentParses(result[r].response)
    /\ TagMatches(result[r].response) = <<>>

\* C22: in the fallback outcome the recommendations are the first
\* min(top_k, number of candidates) candidates in retrieval order.
C22_FallbackIsTopK ==
    \A r \in Reqs :
        FallbackOutcome(r) =>
            Recs(r) = Take(candidates[r], Min(req[r].top_k, Len(candidates[r])))

NoDuplicates(s) == \A i, j \in DOMAIN s : s[i] = s[j] => i = j

\* C27: the recommendations list has at most top_k entries and holds each
\* candidate at most once.
C27_AtMostTopKDistinct ==
    \A r \in Reqs :
        Answered(r) =>
            /\ Len(Recs(r)) <= req[r].top_k
            /\ NoDuplicates(Recs(r))

----------------------------------------------------------------------------
(* Claims about the breakdown of the satisfaction score *)

FactorLabels == <<"emotion", "narrative", "ending">>

\* the similarity the breakdown reports for a label
SimilarityOf(label) ==
    IF label = "emotion" THEN scOut.breakdown.emotion_similarity
    ELSE IF label = "narrative" THEN scOut.breakdown.narrative_similarity
    ELSE scOut.breakdown.ending_similarity

InputPosition(label) == CHOOSE i \in DOMAIN FactorLabels : FactorLabels[i] = label

\* label a ranks before label b: higher similarity, or equal and earlier in
\* the input order
RanksBefore(a, b) ==
    \/ SimilarityOf(a) > SimilarityOf(b)
    \/ (SimilarityOf(a) = SimilarityOf(b) /\ InputPosition(a) < InputPosition(b))

\* C23: top_factors holds exactly two distinct labels, the two with the
\* highest similarity in descending order, equal similarities in the input
\* order emotion, narrative, ending.
C23_TopFactors ==
    scOut.done =>
        LET tf == scOut.breakdown.top_factors
        IN  /\ Len(tf) = 2
            /\ tf[1] # tf[2]
            /\ Range(tf) \subseteq Range(FactorLabels)
            /\ \A l \in Range(FactorLabels) \ {tf[1]} : RanksBefore(tf[1], l)
            /\ \A l \in Range(FactorLabels) \ Range(tf) : RanksBefore(tf[2], l)

\* narrative and ending tie below emotion: the input order decides the
\* second label
C23_Witness ==
    /\ scOut.done
    /\ SimilarityOf("narrative") = SimilarityOf("ending")
    /\ SimilarityOf("emotion") > SimilarityOf("narrative")
    /\ scOut.breakdown.top_factors = <<"emotion", "narrative">>

\* the fields of a score that depend on the tag lists
TagDependent(out) ==
    <<out.breakdown.boost_score, out.breakdown.dislike_penalty, out.raw_score,
      out.probability>>

\* two tag lists with the same members: one is the other permuted, or with
\* tags repeated
SameTagSet(a, b) == Range(a) = Range(b)

\* C24: boost and dislike tags behave as sets: lists with the same members
\* give the same boost_score, dislike_penalty, raw_score and probability.
C24_TagListsAreSets ==
    scOut.done =>
        \A bt \in TagLists, dl \in TagLists :
            (SameTagSet(bt, scIn.boost_tags) /\ SameTagSet(dl, scIn.dislikes)) =>
                TagDependent(calculate_satisfaction_probability(
                    [scIn EXCEPT !.boost_tags = bt, !.dislikes = dl]))
                  = TagDependent(scOut)

----------------------------------------------------------------------------
(* Claims about the strategies of aggregate_group_score *)

\* the k-th smallest member of a list, by counting
Kth(probs, k) ==
    CHOOSE v \in Range(probs) :
        /\ Cardinality({i \in DOMAIN probs : probs[i] < v}) < k
        /\ Cardinality({i \in DOMAIN probs : probs[i] <= v}) >= k

ByRank(probs) == [k \in DOMAIN probs |-> Kth(probs, k)]

Abs(x) == IF x < 0 THEN -x ELSE x

\* x is the arithmetic average of the list, up to the rounding of the float
\* additions and of the division: within one spacing of the floats at the sum
IsAverage(x, probs) ==
    LET total == SumUpTo(probs, Len(probs))
    IN  Abs(Len(probs) * x - total) <= Len(probs) * UlpFrom(total, 1, 1)

\* the reference definition of each strategy
IsReference(x, probs, strategy) ==
    LET n == Len(probs)
        ranked == ByRank(probs)
    IN  CASE strategy \in {"mean", "avg", "average"} ->
                x = FloatMean(ranked) /\ IsAverage(x, probs)
          [] strategy \in {"least_misery", "min"} -> x = MinOf(probs)
          [] strategy = "median" ->
                IF n % 2 = 1 THEN x = Kth(probs, (n + 1) \div 2)
                ELSE x = Fl(Fl(Kth(probs, n \div 2) + Kth(probs, n \div 2 + 1), 1), 2)
          [] strategy = "trimmed_mean" ->
                IF n <= 2 THEN x = FloatMean(ranked) /\ IsAverage(x, probs)
                ELSE /\ x = FloatMean(SubSeq(ranked, 2, n - 1))
                     /\ IsAverage(x, SubSeq(ranked, 2, n - 1))
          [] OTHER -> FALSE

----------------------------------------------------------------------------
(* Claims about the members of a simulated group *)

\* the probability the scorer gives member i of the payload
OwnProbability(i) ==
    calculate_satisfaction_probability(
        [user_profile |-> sgIn.members[i].profile,
         movie_profile |-> sgIn.movie_profile,
         dislikes |-> sgIn.members[i].dislikes,
         boost_tags |-> sgIn.members[i].likes,
         weights |-> DefaultWeights,
         penalty_weight |-> sgIn.penalty_weight,
         boost_weight |-> sgIn.boost_weight]).probability

\* the label of the fixed thresholds 0.85, 0.70, 0.50, 0.30
LevelLabel(prob) ==
    CASE prob * 100 >= 85 * Scale -> "very_satisfied"
      [] prob * 100 < 85 * Scale /\ prob * 100 >= 70 * Scale -> "satisfied"
      [] prob * 100 < 70 * Scale /\ prob * 100 >= 50 * Scale -> "neutral"
      [] prob * 100 < 50 * Scale /\ prob * 100 >= 30 * Scale -> "dissatisfied"
      [] OTHER -> "very_dissatisfied"

\* C26: the group score is computed from exactly one probability per member
\* of the payload, and the member results are one entry per member in input
\* order, each with the level of that member's own probability.
C26_EveryMemberScoredOnce ==
    SimReturned =>
        LET n == Len(sgIn.members)
            own == [i \in 1..n |-> OwnProbability(i)]
        IN  /\ sgOut.scored = n
            /\ Len(sgOut.members) = n
            /\ \A i \in 1..n :
                  /\ sgOut.members[i].user_id = sgIn.members[i].user_id
                  /\ sgOut.members[i].probability = own[i]
                  /\ sgOut.members[i].level = LevelLabel(own[i])
            /\ sgOut.group_score =
                  IF sgIn.strategy = "least_misery" THEN MinOf(own)
                  ELSE SumUpTo(own, n) \div n

\* three different members, the last one with the lowest probability
C26_Witness ==
    /\ SimReturned
    /\ Len(sgIn.members) = 3
    /\ sgIn.strategy = "least_misery"
    /\ sgOut.members[3].probability < sgOut.members[1].probability
    /\ sgOut.members[3].probability < sgOut.members[2].probability
    /\ sgOut.group_score = sgOut.members[3].probability
    /\ sgOut.members[3].level # sgOut.members[1].level

----------------------------------------------------------------------------
(* ConversationalRecommender: llm_lab/recommender.py *)

\* a user message is a text that holds one of the recommend keywords or none
KeywordMessage == <<Tok("keyword", <<>>)>>

PlainMessage == <<Tok("word", <<>>)>>

ChatMessages == {KeywordMessage, PlainMessage}

\* any(keyword in message for keyword in recommend_keywords)
_should_recommend(message) == \E i \in DOMAIN message : message[i].t = "keyword"

Entry(role, content) == [role |-> role, content |-> content]

\* recommend(user_input=..., conversation_history=...) with its defaults
\* top_k = 5 and candidate_pool_size = 20
DefaultRequest == Request(Query1, 5, 20, <<>>, 0, 0)

\* what llm_client.generate does in one call
ChatGeneratorOutcomes ==
    {[failed |-> TRUE, response |-> <<>>]}
        \cup {[failed |-> FALSE, response |-> t] : t \in FewTexts}

ChatResult(call, outcome, before) ==
    [call |-> call, status |-> outcome.status, body |-> outcome.body,
     history_len_before |-> before]

\* chat: the user message is appended first; recommend, or generate for a
\* follow-up question, then runs with no try/except around it, and the
\* assistant entry is appended only when it returned
chat(history, user_message, gen) ==
    LET with_user == Append(history, Entry("user", user_message))
        outcome ==
            IF _should_recommend(user_message)
            THEN RecommendAlone(DefaultRequest, gen)
            ELSE IF gen.failed THEN Raised
            ELSE Returned([explanation |-> gen.response, recommendations |-> <<>>])
    IN  IF outcome.status = "raised"
        THEN [history |-> with_user, outcome |-> Raised]
        ELSE [history |-> Append(with_user, Entry("assistant", outcome.body.explanation)),
              outcome |-> Returned(
                  [response |-> outcome.body.explanation,
                   recommendations |-> outcome.body.recommendations,
                   should_recommend |-> _should_recommend(user_message)])]

MaxChatCalls == 3

ChatInit ==
    /\ movies = CatalogA
    /\ dbconn \in {"ok", "none", "raises"}
    /\ RecIdle
    /\ SearchIdle
    /\ IndexIdle
    /\ ScoreIdle
    /\ GroupIdle
    /\ ExplainIdle
    /\ TaxonomyIdle
    /\ UpdaterIdle
    /\ PreferenceIdle
    /\ conversation_history = <<>>
    /\ chatOut = None
    /\ chatCalls = 0

Chat ==
    /\ chatCalls < MaxChatCalls
    /\ \E user_message \in ChatMessages, gen \in ChatGeneratorOutcomes :
          LET done == chat(conversation_history, user_message, gen)
          IN  /\ conversation_history' = done.history
              /\ chatOut' = ChatResult("chat", done.outcome, Len(conversation_history))
    /\ chatCalls' = chatCalls + 1
    /\ UNCHANGED notChat

Reset ==
    /\ chatCalls < MaxChatCalls
    /\ conversation_history' = <<>>
    /\ chatOut' = ChatResult("reset", Returned(None), Len(conversation_history))
    /\ chatCalls' = chatCalls + 1
    /\ UNCHANGED notChat

NextChat == Chat \/ Reset

SpecChat == ChatInit /\ [][NextChat]_vars

----------------------------------------------------------------------------
(* Claims about the conversation history *)

\* user, assistant, user, assistant, ...
Alternates(history) ==
    /\ Len(history) % 2 = 0
    /\ \A i \in DOMAIN history :
          history[i].role = (IF i % 2 = 1 THEN "user" ELSE "assistant")

\* C28: between calls the history alternates user, assistant starting with
\* user, also after a chat call that raised; a chat call that returned added
\* one user and one assistant entry, and reset leaves the history empty.
C28_HistoryWellFormed ==
    /\ Alternates(conversation_history)
    /\ chatOut # None =>
          /\ (chatOut.call = "chat" /\ chatOut.status = "ok") =>
                Len(conversation_history) = chatOut.history_len_before + 2
          /\ chatOut.call = "reset" => conversation_history = <<>>

----------------------------------------------------------------------------
(* Preference analysis: domain/a1_preference.py *)

\* A text is the sequence of its sentences (re.split on . ! ? ;), a sentence
\* the sequence of its words (str.split).  A word is what the keyword tests
\* see of it: whether it holds a negation keyword, whether it holds a positive
\* keyword, and the tags whose TAG_MAP keyword it holds.  No keyword of
\* NEGATION_KEYWORDS or TAG_MAP has a space in it; the positive keyword
\* "보고 싶" has one, so it is found in the sentence and in no single word:
\* spaced_positive.  The tag scores of the result (a hash of the text) do not
\* depend on the tag lists and are left out.
Word(neg, pos, tags) == [neg |-> neg, pos |-> pos, tags |-> tags]

Sentence(words, spaced_positive) == [words |-> words, spaced_positive |-> spaced_positive]

\* the tags of TAG_MAP used here, in the order of the dict
TagMapOrder == <<"scary", "romantic">>

Plain == Word(FALSE, FALSE, {})

Neg == Word(TRUE, FALSE, {})

Pos == Word(FALSE, TRUE, {})

Scary == Word(FALSE, FALSE, {"scary"})

Romantic == Word(FALSE, FALSE, {"romantic"})

SentencePool ==
    { Sentence(<<Scary, Plain, Neg>>, FALSE),                    \* "무서운 영화 싫어"
      Sentence(<<Scary, Plain, Pos>>, FALSE),                    \* "무서운 영화 좋아"
      Sentence(<<Scary, Neg, Romantic, Pos>>, FALSE),            \* "무서운거 말고 로맨스 추천"
      Sentence(<<Romantic, Pos, Scary, Plain, Neg>>, FALSE),     \* "로맨스 좋아하는데 무서운 건 싫어"
      Sentence(<<Romantic, Pos, Word(TRUE, FALSE, {"scary"})>>, FALSE),
      Sentence(<<Romantic, Plain, Plain, Word(TRUE, FALSE, {"scary"})>>, TRUE),
      Sentence(<<Romantic, Plain>>, FALSE) }

HasNegation(sentence) == \E i \in DOMAIN sentence.words : sentence.words[i].neg

HasPositive(sentence) ==
    sentence.spaced_positive \/ \E i \in DOMAIN sentence.words : sentence.words[i].pos

\* found_tags: the tags of TAG_MAP whose keyword is in the sentence
FoundTags(sentence) ==
    SelectSeq(TagMapOrder,
              LAMBDA tag : \E i \in DOMAIN sentence.words : tag \in sentence.words[i].tags)

\* next((i for i, w in enumerate(words) if ...), -1), counted from 1; 0 is -1
FirstIndex(words, test(_)) ==
    IF \E i \in DOMAIN words : test(words[i])
    THEN CHOOSE i \in DOMAIN words :
            test(words[i]) /\ \A j \in 1..(i - 1) : ~test(words[j])
    ELSE 0

\* the exclude and include tags one sentence adds
Classify(sentence) ==
    LET words == sentence.words
        found_tags == FoundTags(sentence)
        neg_idx == FirstIndex(words, LAMBDA w : w.neg)
        pos_idx == FirstIndex(words, LAMBDA w : w.pos)
        \* the keyword of the tag is in sentence[:sentence.find(words[pos_idx])]
        before_pos(tag) == \E i \in 1..(pos_idx - 1) : tag \in words[i].tags
        \* the keyword of the tag is in sentence[sentence.find(words[neg_idx]):]
        from_neg(tag) == \E i \in neg_idx..Len(words) : tag \in words[i].tags
    IN  IF HasNegation(sentence) /\ ~HasPositive(sentence)
        THEN [exclude |-> found_tags, include |-> <<>>]
        ELSE IF HasPositive(sentence) /\ ~HasNegation(sentence)
        THEN [exclude |-> <<>>, include |-> found_tags]
        ELSE IF HasNegation(sentence) /\ HasPositive(sentence)
        THEN IF pos_idx # 0 /\ neg_idx < pos_idx
             THEN [exclude |-> SelectSeq(found_tags, before_pos),
                   include |-> SelectSeq(found_tags, LAMBDA t : ~before_pos(t))]
             ELSE [exclude |-> SelectSeq(found_tags, from_neg),
                   include |-> SelectSeq(found_tags, LAMBDA t : ~from_neg(t))]
        ELSE [exclude |-> <<>>, include |-> <<>>]

\* exclude_tags and include_tags after the loop over the sentences
RECURSIVE CollectUpTo(_, _)
CollectUpTo(text, n) ==
    IF n = 0 THEN [exclude |-> <<>>, include |-> <<>>]
    ELSE LET sofar == CollectUpTo(text, n - 1)
             new == Classify(text[n])
         IN  [exclude |-> sofar.exclude \o new.exclude,
              include |-> sofar.include \o new.include]

\* list(set(tags)): every member once, in an order the set decides
Orderings(S) ==
    {order \in [1..Cardinality(S) -> S] : \A i, j \in DOMAIN order : order[i] = order[j] => i = j}

\* the results _detect_negation_fallback can return for a text
_detect_negation_fallback(text) ==
    LET collected == CollectUpTo(text, Len(text))
    IN  {[exclude_tags |-> exclude_tags,
          include_tags |-> SelectSeq(included, LAMBDA t : t \notin Range(exclude_tags))] :
            exclude_tags \in Orderings(Range(collected.exclude)),
            included \in Orderings(Range(collected.include))}

\* the dislikes string: whether it is a str, and its pieces between commas,
\* each stripped
Dislikes(is_str, pieces) == [is_str |-> is_str, pieces |-> pieces]

\* explicit_dislike_tags
ExplicitDislikeTags(dislikes_text) ==
    IF dislikes_text.is_str
    THEN SelectSeq(dislikes_text.pieces, LAMBDA piece : piece # "")
    ELSE <<>>

\* the results analyze_preference can return for a payload
analyze_preference(payload) ==
    LET explicit_dislike_tags == ExplicitDislikeTags(payload.dislikes)
    IN  UNION {
          {[user_text |-> payload.text,
            dislike_tags |-> all_dislike_tags,
            boost_tags |-> negation_result.include_tags] :
              all_dislike_tags \in
                  Orderings(Range(explicit_dislike_tags)
                              \cup Range(negation_result.exclude_tags))} :
          negation_result \in _detect_negation_fallback(payload.text)}

MaxPrefSentences == 2

PreferenceTexts == UNION {[1..n -> SentencePool] : n \in 0..MaxPrefSentences}

DislikeTexts ==
    {Dislikes(TRUE, <<>>), Dislikes(TRUE, <<"scary">>), Dislikes(TRUE, <<"scary", "", "scary">>),
     Dislikes(TRUE, <<"gore", "romantic">>), Dislikes(FALSE, <<"scary">>)}

PreferenceInit ==
    /\ movies = <<>>
    /\ dbconn = "none"
    /\ RecIdle
    /\ SearchIdle
    /\ IndexIdle
    /\ ScoreIdle
    /\ GroupIdle
    /\ ExplainIdle
    /\ TaxonomyIdle
    /\ UpdaterIdle
    /\ ChatIdle
    /\ apIn \in [text : PreferenceTexts, dislikes : DislikeTexts]
    /\ apOut = None

AnalyzePreference ==
    /\ apOut = None
    /\ apOut' \in analyze_preference(apIn)
    /\ UNCHANGED <<apIn, notPreference>>

NextPreference == AnalyzePreference

SpecPreference == PreferenceInit /\ [][NextPreference]_vars

----------------------------------------------------------------------------
(* Claims about the analysed tag lists *)

\* C29: the boost_tags and dislike_tags analyze_preference returns are
\* disjoint and each is duplicate-free: a tag excluded by a detected negation
\* or by the explicit dislikes list is never a boost tag.
C29_BoostAndDislikeDisjoint ==
    apOut # None =>
        /\ Range(apOut.boost_tags) \cap Range(apOut.dislike_tags) = {}
        /\ NoDuplicates(apOut.boost_tags)
        /\ NoDuplicates(apOut.dislike_tags)

----------------------------------------------------------------------------
(* Claims about the tag lists and scores a preference update stores *)

\* the call just made updated the stored preference of its user
Updated == upOut'.n # upOut.n /\ ~NotFound(upIn', store)

DisjointTags(pref) == Range(pref.boost_tags) \cap Range(pref.dislike_tags) = {}

DuplicateFree(pref) == NoDuplicates(pref.boost_tags) /\ NoDuplicates(pref.dislike_tags)

WithinCaps(pref) ==
    Len(pref.boost_tags) <= MaxBoostTags /\ Len(pref.dislike_tags) <= MaxDislikeTags

ScoresInUnitRange(pref) ==
    \A category \in DOMAIN pref.preference_vector_json :
        \A key \in DOMAIN pref.preference_vector_json[category] :
            pref.preference_vector_json[category][key] \in 0..Scale

KeepsPersonaAndPenalty(before, after) ==
    after.persona_code = before.persona_code /\ after.penalty_tags = before.penalty_tags

====
